---------------------------- MODULE Spec2Model ----------------------------
(***************************************************************************)
(* Model of the access layer of scd-access (src/lib/index.ts): the seven   *)
(* REST operations, the deprecated alias, request(), getFileContent(),     *)
(* the zod schemas and the `local` debug flag.                             *)
(*                                                                         *)
(* Representation.                                                         *)
(*  - url, topic, h3Index, keywords, id and token are TLA+ strings wrapped *)
(*    in [def, s] so that the JavaScript value `undefined` is a value.     *)
(*  - A JavaScript value that is validated or serialised (a record, a      *)
(*    parsed file, a parsed response) is a tagged JSON value; an object is *)
(*    a sequence of members [k, v] in insertion order.                     *)
(*  - A text that is parsed or produced by JSON (file content, request     *)
(*    body, response body, error message) is a sequence of lexical tokens. *)
(***************************************************************************)
EXTENDS Integers, Sequences, FiniteSets, TLC

VARIABLES local, call

vars == <<local, call>>

---------------------------------------------------------------------------
(* JavaScript strings and `undefined`                                      *)

Undefined == [def |-> FALSE, s |-> ""]
Str(x) == [def |-> TRUE, s |-> x]

\* `${a}` in a template literal
Show(a) == IF a.def THEN a.s ELSE "undefined"

\* a === undefined || a === ''      (also a.length === 0 for a string)
IsMissing(a) == (~a.def) \/ a.s = ""

\* a default parameter value: `keywords = ''`
WithDefault(a, d) == IF a.def THEN a ELSE Str(d)

---------------------------------------------------------------------------
(* JSON values                                                             *)

JUndef == [t |-> "undef", v |-> <<>>]
JNull == [t |-> "null", v |-> <<>>]
JStr(s) == [t |-> "str", v |-> <<s>>]
JNum(n) == [t |-> "num", v |-> <<n>>]
JArr(elems) == [t |-> "arr", v |-> elems]
JObj(members) == [t |-> "obj", v |-> members]
Mem(key, val) == [k |-> key, v |-> val]

Keys(o) == {o.v[i].k : i \in 1..Len(o.v)}

\* o[key] in JavaScript: undefined when the key is absent
Get(o, key) ==
    IF o.t = "obj" /\ key \in Keys(o)
    THEN LET i == CHOOSE j \in 1..Len(o.v) : o.v[j].k = key IN o.v[i].v
    ELSE JUndef

\* o[key] = val: an existing key keeps its position, a new key is appended
Put(members, key, val) ==
    IF \E i \in 1..Len(members) : members[i].k = key
    THEN [i \in 1..Len(members) |->
            IF members[i].k = key THEN Mem(key, val) ELSE members[i]]
    ELSE Append(members, Mem(key, val))

---------------------------------------------------------------------------
(* Texts: sequences of lexical tokens                                      *)

Punct(c) == [k |-> "p", v |-> c]
StrTok(s) == [k |-> "s", v |-> s]
NumTok(n) == [k |-> "n", v |-> n]
LitTok(w) == [k |-> "l", v |-> w]
\* characters that are not JSON (a plain message such as OK)
RawTok(s) == [k |-> "raw", v |-> s]


\* JSON.stringify of the members / elements, joined by commas
RECURSIVE stringifyValue(_), stringifyMembers(_, _), stringifyElements(_, _)

\* JSON.stringify(value) for a value that is not undefined
stringifyValue(val) ==
    CASE val.t = "str" -> <<StrTok(val.v[1])>>
      [] val.t = "num" -> <<NumTok(val.v[1])>>
      [] val.t = "null" -> <<LitTok("null")>>
      [] val.t = "arr" ->
            <<Punct("[")>> \o stringifyElements(val.v, TRUE) \o <<Punct("]")>>
      [] val.t = "obj" ->
            <<Punct("{")>> \o stringifyMembers(val.v, TRUE) \o <<Punct("}")>>
      [] OTHER -> <<>>

\* a member whose value is undefined is left out
stringifyMembers(members, first) ==
    IF members = <<>> THEN <<>>
    ELSE LET m == Head(members) IN
         IF m.v.t = "undef" THEN stringifyMembers(Tail(members), first)
         ELSE (IF first THEN <<>> ELSE <<Punct(",")>>)
              \o <<StrTok(m.k), Punct(":")>> \o stringifyValue(m.v)
              \o stringifyMembers(Tail(members), FALSE)

\* an undefined element of an array is written as null
stringifyElements(elems, first) ==
    IF elems = <<>> THEN <<>>
    ELSE (IF first THEN <<>> ELSE <<Punct(",")>>)
         \o (IF Head(elems).t = "undef" THEN <<LitTok("null")>>
             ELSE stringifyValue(Head(elems)))
         \o stringifyElements(Tail(elems), FALSE)

\* JSON.stringify(value): undefined for undefined, rendered as the empty text
JSONstringify(val) == stringifyValue(val)

\* the result of a parsing step: the value read and the tokens left
Parsed(val, rest) == [ok |-> TRUE, val |-> val, rest |-> rest]
SyntaxError == [ok |-> FALSE, val |-> JUndef, rest |-> <<>>]

RECURSIVE parseValue(_), parseMembers(_, _), parseElements(_, _)

parseValue(ts) ==
    IF ts = <<>> THEN SyntaxError
    ELSE LET h == Head(ts) IN
         CASE h.k = "s" -> Parsed(JStr(h.v), Tail(ts))
           [] h.k = "n" -> Parsed(JNum(h.v), Tail(ts))
           [] h = LitTok("null") -> Parsed(JNull, Tail(ts))
           [] h = Punct("{") ->
                 IF Len(ts) >= 2 /\ ts[2] = Punct("}")
                 THEN Parsed(JObj(<<>>), Tail(Tail(ts)))
                 ELSE parseMembers(Tail(ts), <<>>)
           [] h = Punct("[") ->
                 IF Len(ts) >= 2 /\ ts[2] = Punct("]")
                 THEN Parsed(JArr(<<>>), Tail(Tail(ts)))
                 ELSE parseElements(Tail(ts), <<>>)
           [] OTHER -> SyntaxError

\* "key" : value  followed by , (another member) or } (the end)
parseMembers(ts, acc) ==
    IF Len(ts) < 2 \/ ts[1].k # "s" \/ ts[2] # Punct(":") THEN SyntaxError
    ELSE LET r == parseValue(Tail(Tail(ts))) IN
         IF ~r.ok \/ r.rest = <<>> THEN SyntaxError
         ELSE LET acc2 == Put(acc, ts[1].v, r.val) IN
              CASE Head(r.rest) = Punct(",") -> parseMembers(Tail(r.rest), acc2)
                [] Head(r.rest) = Punct("}") -> Parsed(JObj(acc2), Tail(r.rest))
                [] OTHER -> SyntaxError

parseElements(ts, acc) ==
    LET r == parseValue(ts) IN
    IF ~r.ok \/ r.rest = <<>> THEN SyntaxError
    ELSE CASE Head(r.rest) = Punct(",") ->
                 parseElements(Tail(r.rest), Append(acc, r.val))
           [] Head(r.rest) = Punct("]") ->
                 Parsed(JArr(Append(acc, r.val)), Tail(r.rest))
           [] OTHER -> SyntaxError

\* the text is one JSON value, or it is a syntax error
parseText(text) ==
    LET r == parseValue(text) IN
    IF r.ok /\ r.rest = <<>> THEN r ELSE SyntaxError

---------------------------------------------------------------------------
(* The zod schemas of index.ts, as data, and zod's parse as an interpreter *)

zNumber == [z |-> "number"]
zString == [z |-> "string"]
zUrl == [z |-> "url"]
zOptional(schema) == [z |-> "optional", of |-> schema]
zArray(schema) == [z |-> "array", of |-> schema]
zObject(shape) == [z |-> "object", shape |-> shape]
zExtend(schema, shape) == [z |-> "object", shape |-> schema.shape \o shape]
Field(key, schema) == [k |-> key, s |-> schema]

positionSchema ==
    zObject(<<Field("lon", zNumber), Field("lat", zNumber), Field("h", zNumber)>>)

quaternionSchema ==
    zObject(<<Field("x", zNumber), Field("y", zNumber),
              Field("z", zNumber), Field("w", zNumber)>>)

geoPoseSchema ==
    zObject(<<Field("position", positionSchema),
              Field("quaternion", quaternionSchema)>>)

\* mutant: url is any string
refSchemaNoUrlCheck ==
    zObject(<<Field("contentType", zString), Field("url", zString)>>)

refSchema ==
    zObject(<<Field("contentType", zString), Field("url", zUrl)>>)

defSchema ==
    zObject(<<Field("type", zString), Field("value", zString)>>)

\* mutant: geopose is optional
contentSchemaGeoposeOptional ==
    zObject(<<Field("id", zString),
              Field("type", zString),
              Field("title", zString),
              Field("description", zOptional(zString)),
              Field("keywords", zOptional(zArray(zString))),
              Field("placekey", zOptional(zString)),
              Field("refs", zOptional(zArray(refSchema))),
              Field("geopose", zOptional(geoPoseSchema)),
              Field("size", zOptional(zNumber)),
              Field("bbox", zOptional(zString)),
              Field("definitions", zOptional(zArray(defSchema)))>>)

contentSchema ==
    zObject(<<Field("id", zString),
              Field("type", zString),
              Field("title", zString),
              Field("description", zOptional(zString)),
              Field("keywords", zOptional(zArray(zString))),
              Field("placekey", zOptional(zString)),
              Field("refs", zOptional(zArray(refSchema))),
              Field("geopose", geoPoseSchema),
              Field("size", zOptional(zNumber)),
              Field("bbox", zOptional(zString)),
              Field("definitions", zOptional(zArray(defSchema)))>>)

scrNoIdSchema ==
    zObject(<<Field("type", zString),
              Field("content", contentSchema),
              Field("tenant", zOptional(zString)),
              Field("timestamp", zOptional(zNumber))>>)

scrSchema == zExtend(scrNoIdSchema, <<Field("id", zString)>>)

\* the strings that `new URL(s)` accepts, among the strings of the model
ValidUrls == {"https://www.example.com/cat.glb", "https://www.example.com/dog.glb"}
IsUrl(s) == s \in ValidUrls

Issue(path, code) == [path |-> path, code |-> code]
PathKey(path, key) == IF path = "" THEN key ELSE path \o "." \o key
\* zod counts the elements of an array from 0
PathIndex(path, i) == path \o "[" \o ToString(i - 1) \o "]"

\* the issues zod collects for `val` at `path`: every violated constraint,
\* not only the first
RECURSIVE zIssues(_, _, _)
zIssues(schema, val, path) ==
    CASE schema.z = "number" ->
            IF val.t = "num" THEN {} ELSE {Issue(path, "invalid_type")}
      [] schema.z = "string" ->
            IF val.t = "str" THEN {} ELSE {Issue(path, "invalid_type")}
      [] schema.z = "url" ->
            IF val.t # "str" THEN {Issue(path, "invalid_type")}
            ELSE IF IsUrl(val.v[1]) THEN {} ELSE {Issue(path, "invalid_string")}
      [] schema.z = "optional" ->
            IF val.t = "undef" THEN {} ELSE zIssues(schema.of, val, path)
      [] schema.z = "array" ->
            IF val.t # "arr" THEN {Issue(path, "invalid_type")}
            ELSE UNION {zIssues(schema.of, val.v[i], PathIndex(path, i)) :
                            i \in 1..Len(val.v)}
      [] schema.z = "object" ->
            IF val.t # "obj" THEN {Issue(path, "invalid_type")}
            ELSE UNION {zIssues(schema.shape[i].s, Get(val, schema.shape[i].k),
                                PathKey(path, schema.shape[i].k)) :
                            i \in 1..Len(schema.shape)}

\* the value zod returns for a valid `val`: an object holds the keys of the
\* shape that the input has, in the order of the shape; other keys are
\* stripped
RECURSIVE zData(_, _), zShapeData(_, _)
zData(schema, val) ==
    CASE schema.z = "optional" ->
            IF val.t = "undef" THEN val ELSE zData(schema.of, val)
      [] schema.z = "array" ->
            JArr([i \in 1..Len(val.v) |-> zData(schema.of, val.v[i])])
      [] schema.z = "object" -> JObj(zShapeData(schema.shape, val))
      [] OTHER -> val

zShapeData(shape, val) ==
    IF shape = <<>> THEN <<>>
    ELSE LET f == Head(shape) IN
         (IF f.k \in Keys(val)
          THEN <<Mem(f.k, zData(f.s, Get(val, f.k)))>> ELSE <<>>)
         \o zShapeData(Tail(shape), val)

\* schema.parse(val): the stripped value, or a ZodError carrying the issues
zParse(schema, val) ==
    LET issues == zIssues(schema, val, "") IN
    IF issues = {}
    THEN [success |-> TRUE, data |-> zData(schema, val), issues |-> {}]
    ELSE [success |-> FALSE, data |-> JUndef, issues |-> issues]

---------------------------------------------------------------------------
(* Constants and fixtures of index.ts                                      *)

GET_METHOD == "get"
POST_METHOD == "post"
PUT_METHOD == "put"
DELETE_METHOD == "delete"

scrsPath == "scrs"

\* id.length < 16 in getContentWithId
MinIdLength == 16

fixtureQuaternion ==
    JObj(<<Mem("x", JNum("0.5")), Mem("y", JNum("0.5")),
           Mem("z", JNum("0.5")), Mem("w", JNum("0.5"))>>)

catContent ==
    JObj(<<Mem("id", JStr("111")),
           Mem("type", JStr("3d")),
           Mem("title", JStr("cat model")),
           Mem("keywords", JArr(<<JStr("cat")>>)),
           Mem("url", JStr("https://www.example.com/cat.glb")),
           Mem("geopose",
               JObj(<<Mem("position",
                          JObj(<<Mem("lon", JNum("-97.7288818359375")),
                                 Mem("lat", JNum("30.286160447473897")),
                                 Mem("h", JNum("78.34"))>>)),
                      Mem("quaternion", fixtureQuaternion)>>)),
           Mem("size", JNum("100"))>>)

dogContent ==
    JObj(<<Mem("id", JStr("222")),
           Mem("type", JStr("3d")),
           Mem("title", JStr("dog model")),
           Mem("url", JStr("https://www.example.com/dog.glb")),
           Mem("geopose",
               JObj(<<Mem("position",
                          JObj(<<Mem("lon", JNum("-97.7358341217041")),
                                 Mem("lat", JNum("30.28567869039136")),
                                 Mem("h", JNum("78.34"))>>)),
                      Mem("quaternion", fixtureQuaternion)>>)),
           Mem("size", JNum("100"))>>)

localResults ==
    JArr(<<JObj(<<Mem("id", JStr("a3683f12b334dea6")),
                  Mem("type", JStr("scr")),
                  Mem("content", catContent),
                  Mem("tenant", JStr("oscptest")),
                  Mem("timestamp", JNum("202009"))>>),
           JObj(<<Mem("id", JStr("d44a6818c119b51e")),
                  Mem("type", JStr("scr")),
                  Mem("content", dogContent),
                  Mem("tenant", JStr("oscptest")),
                  Mem("timestamp", JNum("20200924"))>>)>>)

localResult ==
    JObj(<<Mem("id", JStr("a3683f12b334dea6")),
           Mem("type", JStr("scr")),
           Mem("content", catContent),
           Mem("tenant", JStr("oscptest")),
           Mem("timestamp", JNum("20200924"))>>)

\* the string literal 'OK'
OK == <<RawTok("OK")>>

---------------------------------------------------------------------------
(* The arguments and the environment's answers the model draws from        *)

\* a File argument: undefined, or a named file holding a text
NoFile == [def |-> FALSE, name |-> "", text |-> <<>>]
File(name, text) == [def |-> TRUE, name |-> name, text |-> text]

\* ids of length 0..MaxIdLen are tried
MaxIdLen == 17

RECURSIVE Chars(_)
Chars(n) == IF n = 0 THEN "" ELSE "a" \o Chars(n - 1)

Urls == {Str("https://svc")}
Topics == {Undefined, Str(""), Str("3d")}
H3Indexes == {Undefined, Str(""), Str("8928308280fffff")}
KeywordArgs == {Undefined, Str(""), Str("cat")}
Ids == {Undefined} \cup {Str(Chars(n)) : n \in 0..MaxIdLen}
Tokens == {Undefined, Str(""), Str("tok")}

unitGeopose ==
    JObj(<<Mem("position",
               JObj(<<Mem("lon", JNum("0")), Mem("lat", JNum("0")),
                      Mem("h", JNum("0"))>>)),
           Mem("quaternion",
               JObj(<<Mem("x", JNum("0")), Mem("y", JNum("0")),
                      Mem("z", JNum("0")), Mem("w", JNum("1"))>>))>>)

\* the record of the specification's create scenario: a valid SCR without id
recMinimal ==
    JObj(<<Mem("type", JStr("scr")),
           Mem("content",
               JObj(<<Mem("id", JStr("x")), Mem("type", JStr("3d")),
                      Mem("title", JStr("t")), Mem("geopose", unitGeopose)>>))>>)

\* the same with a top-level id: a valid SCR
recWithId == JObj(Append(recMinimal.v, Mem("id", JStr("a3683f12b334dea6"))))

\* content without geopose
recNoGeopose ==
    JObj(<<Mem("type", JStr("scr")),
           Mem("content",
               JObj(<<Mem("id", JStr("x")), Mem("type", JStr("3d")),
                      Mem("title", JStr("t"))>>)),
           Mem("id", JStr("a3683f12b334dea6"))>>)

\* geopose without quaternion, and a title that is a number: two violations
recTwoViolations ==
    JObj(<<Mem("type", JStr("scr")),
           Mem("content",
               JObj(<<Mem("id", JStr("x")), Mem("type", JStr("3d")),
                      Mem("title", JNum("7")),
                      Mem("geopose",
                          JObj(<<Mem("position", unitGeopose.v[1].v)>>))>>)),
           Mem("id", JStr("a3683f12b334dea6"))>>)

\* optional fields present, some of them empty
recOptionals ==
    JObj(<<Mem("id", JStr("a3683f12b334dea6")),
           Mem("type", JStr("scr")),
           Mem("content",
               JObj(<<Mem("id", JStr("x")), Mem("type", JStr("3d")),
                      Mem("title", JStr("t")),
                      Mem("description", JStr("")),
                      Mem("keywords", JArr(<<>>)),
                      Mem("refs",
                          JArr(<<JObj(<<Mem("contentType", JStr("model/gltf")),
                                        Mem("url",
                                            JStr("https://www.example.com/cat.glb"))>>)>>)),
                      Mem("geopose", unitGeopose),
                      Mem("definitions", JArr(<<>>))>>)),
           Mem("tenant", JStr("oscptest"))>>)

\* refs present and empty
recEmptyRefs ==
    JObj(<<Mem("type", JStr("scr")),
           Mem("content",
               JObj(<<Mem("id", JStr("x")), Mem("type", JStr("3d")),
                      Mem("title", JStr("t")), Mem("refs", JArr(<<>>)),
                      Mem("geopose", unitGeopose)>>)),
           Mem("id", JStr("a3683f12b334dea6"))>>)

\* a reference whose url is no URI
recBadRef ==
    JObj(<<Mem("type", JStr("scr")),
           Mem("content",
               JObj(<<Mem("id", JStr("x")), Mem("type", JStr("3d")),
                      Mem("title", JStr("t")),
                      Mem("refs",
                          JArr(<<JObj(<<Mem("contentType", JStr("model/gltf")),
                                        Mem("url", JStr("cat.glb"))>>)>>)),
                      Mem("geopose", unitGeopose)>>)),
           Mem("id", JStr("a3683f12b334dea6"))>>)

\* a reference without contentType
recRefNoType ==
    JObj(<<Mem("type", JStr("scr")),
           Mem("content",
               JObj(<<Mem("id", JStr("x")), Mem("type", JStr("3d")),
                      Mem("title", JStr("t")),
                      Mem("refs",
                          JArr(<<JObj(<<Mem("url",
                                            JStr("https://www.example.com/cat.glb"))>>)>>)),
                      Mem("geopose", unitGeopose)>>)),
           Mem("id", JStr("a3683f12b334dea6"))>>)

\* geopose without position
recNoPosition ==
    JObj(<<Mem("type", JStr("scr")),
           Mem("content",
               JObj(<<Mem("id", JStr("x")), Mem("type", JStr("3d")),
                      Mem("title", JStr("t")),
                      Mem("geopose",
                          JObj(<<Mem("quaternion", unitGeopose.v[2].v)>>))>>)),
           Mem("id", JStr("a3683f12b334dea6"))>>)

\* the records a caller passes: the above, a fixture (it has the key
\* content.url, which no schema knows), and undefined
Records ==
    {recMinimal, recWithId, recNoGeopose, recTwoViolations, recOptionals,
     recEmptyRefs, recBadRef, recRefNoType, recNoPosition, localResult, JUndef}

\* the texts a file holds: serialised records, a text cut short, no JSON
FileTexts ==
    {JSONstringify(r) : r \in {recMinimal, recNoGeopose, recOptionals,
                               recEmptyRefs, recBadRef, recNoPosition,
                               localResult}}
    \cup {SubSeq(JSONstringify(recMinimal), 1, Len(JSONstringify(recMinimal)) - 1),
          <<RawTok("hello")>>, <<>>}

Files == {NoFile} \cup {File("scr.json", text) : text \in FileTexts}

\* what fetch resolves with: status, status text and body
Response(ok, statusText, body) ==
    [ok |-> ok, statusText |-> statusText, body |-> body]
NoResponse == Response(FALSE, "", <<>>)

Responses ==
    {Response(TRUE, "OK", JSONstringify(localResults)),
     Response(TRUE, "OK", JSONstringify(recWithId)),
     Response(TRUE, "OK", JSONstringify(recNoGeopose)),
     Response(TRUE, "OK", <<RawTok("created")>>),
     Response(FALSE, "Not Found", <<RawTok("no such record")>>),
     Response(FALSE, "Unauthorized", <<>>)}

\* the texts that files, responses and serialised records hold, each parsed
\* once
KnownTexts ==
    FileTexts \cup {r.body : r \in Responses}
              \cup {JSONstringify(r) : r \in Records}
parsedTexts == [text \in KnownTexts |-> parseText(text)]

\* JSON.parse(text): a value, or a SyntaxError when the text is not one value
JSONparse(text) ==
    IF text \in KnownTexts THEN parsedTexts[text] ELSE parseText(text)

---------------------------------------------------------------------------
(* What an operation does until it returns, throws or suspends             *)

NoReq == [url |-> "", method |-> "", headers |-> <<>>, hasBody |-> FALSE,
          body |-> <<>>]
NoErr == [name |-> "", message |-> <<>>, issues |-> {}]
NoRet == [rt |-> "none", j |-> JUndef, txt |-> <<>>]

\* a returned JavaScript value / a returned string
RetJson(val) == [rt |-> "json", j |-> val, txt |-> <<>>]
RetText(text) == [rt |-> "text", j |-> JUndef, txt |-> text]

\* new Error(message), a ZodError, a SyntaxError of JSON.parse, a promise
\* rejected with a plain string, the TypeError of a fetch that cannot connect
Error(message) == [name |-> "Error", message |-> message, issues |-> {}]
ZodError(issues) == [name |-> "ZodError", message |-> <<>>, issues |-> issues]
JsonSyntaxError == [name |-> "SyntaxError", message |-> <<>>, issues |-> {}]
Rejection(message) == [name |-> "string", message |-> message, issues |-> {}]
TransportError ==
    [name |-> "TypeError", message |-> <<RawTok("Failed to fetch")>>,
     issues |-> {}]

\* return a value; throw; call fetch and consume the response with
\* response.json() or response.text(); each with the calls made on the way
Return(ret, trace) ==
    [e |-> "return", ret |-> ret, err |-> NoErr, req |-> NoReq, as |-> "",
     trace |-> trace]
Throw(err, trace) ==
    [e |-> "throw", ret |-> NoRet, err |-> err, req |-> NoReq, as |-> "",
     trace |-> trace]
Fetch(req, as, trace) ==
    [e |-> "fetch", ret |-> NoRet, err |-> NoErr, req |-> req, as |-> as,
     trace |-> trace]

\* the effect `eff` of a callee, after the caller has made the calls `trace`
After(trace, eff) == [eff EXCEPT !.trace = trace \o @]

Header(name, value) == [name |-> name, value |-> value]

\* mutant: the authorization header is appended whatever the token
requestAlwaysAuthorization(url, method, body, token) ==
    LET withBody == method = POST_METHOD \/ method = PUT_METHOD
    IN [url |-> url, method |-> method,
        headers |-> <<Header("accept", "application/vnd.oscp+json; version=1.0;"),
                      Header("content-type", "application/json"),
                      Header("authorization", "Bearer " \o Show(token))>>,
        hasBody |-> withBody, body |-> IF withBody THEN body ELSE <<>>]

\* mutant: the options carry the body for every method
requestAlwaysBody(url, method, body, token) ==
    [url |-> url, method |-> method,
     headers |-> IF token.def /\ token.s # ""
                 THEN <<Header("accept", "application/vnd.oscp+json; version=1.0;"),
                        Header("content-type", "application/json"),
                        Header("authorization", "Bearer " \o token.s)>>
                 ELSE <<Header("accept", "application/vnd.oscp+json; version=1.0;"),
                        Header("content-type", "application/json")>>,
     hasBody |-> TRUE, body |-> body]

\* request(url, method, body, token) up to its call of fetch(url, options):
\* the options carry a body only for post and put
request(url, method, body, token) ==
    LET base == <<Header("accept", "application/vnd.oscp+json; version=1.0;"),
                  Header("content-type", "application/json")>>
        headers == IF token.def /\ token.s # ""
                   THEN Append(base, Header("authorization", "Bearer " \o token.s))
                   ELSE base
        withBody == method = POST_METHOD \/ method = PUT_METHOD
    IN [url |-> url, method |-> method, headers |-> headers,
        hasBody |-> withBody, body |-> IF withBody THEN body ELSE <<>>]

\* request(url) with the defaults method = GET_METHOD, body = '', no token
requestDefault(url) == request(url, GET_METHOD, <<>>, Undefined)

---------------------------------------------------------------------------
(* The operations of index.ts, each up to its first suspension             *)

\* mutant: the parameters are checked before the flag
getContentsAtLocationChecksFirst(url, topic, h3Index, keywordsArg) ==
    IF IsMissing(topic) \/ IsMissing(h3Index)
    THEN Throw(Error(<<RawTok("Check parameters: " \o Show(topic) \o " "
                                 \o Show(h3Index))>>), <<"local">>)
    ELSE IF local THEN Return(RetJson(localResults), <<"local">>)
    ELSE Fetch(requestDefault(Show(url) \o "/" \o scrsPath \o "/" \o Show(topic)
                              \o "?h3Index=" \o Show(h3Index)
                              \o (IF WithDefault(keywordsArg, "").s = "" THEN ""
                                  ELSE "&keywords=" \o keywordsArg.s)),
               "json", <<"local", "request", "fetch">>)

\* mutant: only the topic is checked
getContentsAtLocationTopicOnly(url, topic, h3Index, keywordsArg) ==
    IF local THEN Return(RetJson(localResults), <<"local">>)
    ELSE IF IsMissing(topic)
    THEN Throw(Error(<<RawTok("Check parameters: " \o Show(topic) \o " "
                                 \o Show(h3Index))>>), <<"local">>)
    ELSE Fetch(requestDefault(Show(url) \o "/" \o scrsPath \o "/" \o Show(topic)
                              \o "?h3Index=" \o Show(h3Index)
                              \o (IF WithDefault(keywordsArg, "").s = "" THEN ""
                                  ELSE "&keywords=" \o keywordsArg.s)),
               "json", <<"local", "request", "fetch">>)

\* mutant: the keywords parameter is sent even when it is empty
getContentsAtLocationAlwaysKeywords(url, topic, h3Index, keywordsArg) ==
    LET keywords == WithDefault(keywordsArg, "")
    IN IF local THEN Return(RetJson(localResults), <<"local">>)
       ELSE IF IsMissing(topic) \/ IsMissing(h3Index)
       THEN Throw(Error(<<RawTok("Check parameters: " \o Show(topic) \o " "
                                    \o Show(h3Index))>>), <<"local">>)
       ELSE Fetch(requestDefault(Show(url) \o "/" \o scrsPath \o "/"
                                 \o Show(topic) \o "?h3Index=" \o Show(h3Index)
                                 \o "&keywords=" \o keywords.s),
                  "json", <<"local", "request", "fetch">>)

getContentsAtLocation(url, topic, h3Index, keywordsArg) ==
    LET keywords == WithDefault(keywordsArg, "")
        keywordsQuery == IF keywords.s = "" THEN ""
                         ELSE "&keywords=" \o keywords.s
    IN IF local THEN Return(RetJson(localResults), <<"local">>)
       ELSE IF IsMissing(topic) \/ IsMissing(h3Index)
       THEN Throw(Error(<<RawTok("Check parameters: " \o Show(topic) \o " "
                                    \o Show(h3Index))>>), <<"local">>)
       ELSE Fetch(requestDefault(Show(url) \o "/" \o scrsPath \o "/"
                                 \o Show(topic) \o "?h3Index=" \o Show(h3Index)
                                 \o keywordsQuery),
                  "json", <<"local", "request", "fetch">>)

\* mutant: the alias does not pass the keywords on
getContentAtLocationDropsKeywords(url, topic, h3Index, keywordsArg) ==
    getContentsAtLocation(url, topic, h3Index, Str(""))

\* the deprecated alias
getContentAtLocation(url, topic, h3Index, keywordsArg) ==
    getContentsAtLocation(url, topic, h3Index, WithDefault(keywordsArg, ""))

\* mutant: id.length <= 16
getContentWithIdOffByOne(url, topic, id) ==
    IF local THEN Return(RetJson(localResult), <<"local">>)
    ELSE IF (~id.def) \/ Len(id.s) <= MinIdLength
    THEN Throw(Error(<<RawTok("Check parameters: " \o Show(id))>>), <<"local">>)
    ELSE Fetch(requestDefault(Show(url) \o "/" \o scrsPath \o "/" \o Show(topic)
                              \o "/" \o Show(id)),
               "json", <<"local", "request", "fetch">>)

getContentWithId(url, topic, id) ==
    IF local THEN Return(RetJson(localResult), <<"local">>)
    ELSE IF (~id.def) \/ Len(id.s) < MinIdLength
    THEN Throw(Error(<<RawTok("Check parameters: " \o Show(id))>>), <<"local">>)
    ELSE Fetch(requestDefault(Show(url) \o "/" \o scrsPath \o "/" \o Show(topic)
                              \o "/" \o Show(id)),
               "json", <<"local", "request", "fetch">>)

\* mutant: the tenant search goes to the path of the public search
searchContentsForTenantPublicPath(url, topic, token) ==
    Fetch(request(Show(url) \o "/" \o scrsPath \o "/" \o Show(topic),
                  GET_METHOD, <<>>, token),
          "json", <<"request", "fetch">>)

searchContentsForTenant(url, topic, token) ==
    Fetch(request(Show(url) \o "/tenant/" \o scrsPath \o "/" \o Show(topic),
                  GET_METHOD, <<>>, token),
          "json", <<"request", "fetch">>)

\* mutant: the record is validated before the token is checked
postContentValidatesFirst(url, topic, scr, token) ==
    IF local THEN Return(RetText(OK), <<"postContent", "local">>)
    ELSE LET parsed == zParse(scrNoIdSchema, scr) IN
         IF ~parsed.success
         THEN Throw(ZodError(parsed.issues),
                    <<"postContent", "local", "scrNoIdSchema.parse">>)
         ELSE IF IsMissing(token)
         THEN Throw(Error(<<RawTok("Check parameter: " \o Show(token))>>),
                    <<"postContent", "local", "scrNoIdSchema.parse">>)
         ELSE Fetch(request(Show(url) \o "/" \o scrsPath \o "/" \o Show(topic),
                            POST_METHOD, JSONstringify(scr), token),
                    "text",
                    <<"postContent", "local", "scrNoIdSchema.parse",
                      "JSON.stringify", "request", "fetch">>)

\* mutant: the record is not validated
postContentNoValidation(url, topic, scr, token) ==
    IF local THEN Return(RetText(OK), <<"postContent", "local">>)
    ELSE IF IsMissing(token)
    THEN Throw(Error(<<RawTok("Check parameter: " \o Show(token))>>),
               <<"postContent", "local">>)
    ELSE Fetch(request(Show(url) \o "/" \o scrsPath \o "/" \o Show(topic),
                       POST_METHOD, JSONstringify(scr), token),
               "text",
               <<"postContent", "local", "JSON.stringify", "request", "fetch">>)

\* mutant: the record is sent with the default `refs: []` of scr.schema.json
\* filled in
postContentSendsDefaults(url, topic, scr, token) ==
    IF local THEN Return(RetText(OK), <<"postContent", "local">>)
    ELSE IF IsMissing(token)
    THEN Throw(Error(<<RawTok("Check parameter: " \o Show(token))>>),
               <<"postContent", "local">>)
    ELSE LET parsed == zParse(scrNoIdSchema, scr)
             content == Get(scr, "content")
             filled == IF Get(content, "refs").t = "undef"
                       THEN JObj(Put(scr.v, "content",
                                     JObj(Put(content.v, "refs", JArr(<<>>)))))
                       ELSE scr
         IN
         IF ~parsed.success
         THEN Throw(ZodError(parsed.issues),
                    <<"postContent", "local", "scrNoIdSchema.parse">>)
         ELSE Fetch(request(Show(url) \o "/" \o scrsPath \o "/" \o Show(topic),
                            POST_METHOD, JSONstringify(filled), token),
                    "text",
                    <<"postContent", "local", "scrNoIdSchema.parse",
                      "JSON.stringify", "request", "fetch">>)

postContent(url, topic, scr, token) ==
    IF local THEN Return(RetText(OK), <<"postContent", "local">>)
    ELSE IF IsMissing(token)
    THEN Throw(Error(<<RawTok("Check parameter: " \o Show(token))>>),
               <<"postContent", "local">>)
    ELSE LET parsed == zParse(scrNoIdSchema, scr) IN
         IF ~parsed.success
         THEN Throw(ZodError(parsed.issues),
                    <<"postContent", "local", "scrNoIdSchema.parse">>)
         ELSE Fetch(request(Show(url) \o "/" \o scrsPath \o "/" \o Show(topic),
                            POST_METHOD, JSONstringify(scr), token),
                    "text",
                    <<"postContent", "local", "scrNoIdSchema.parse",
                      "JSON.stringify", "request", "fetch">>)

\* mutant: the parsed file is handed to postContent without validation
postScrFileLoadedNoValidation(url, topic, result, token) ==
    LET parsedResult == JSONparse(result) IN
    IF ~parsedResult.ok THEN Throw(JsonSyntaxError, <<"JSON.parse">>)
    ELSE After(<<"JSON.parse">>,
               postContent(url, topic, parsedResult.val, token))

\* postScrFile once getFileContent(file) has resolved with `result`
\* mutant: the validated record is posted by postScrFile itself, which does
\* not look at `local`
postScrFileLoadedPostsDirectly(url, topic, result, token) ==
    LET parsedResult == JSONparse(result) IN
    IF ~parsedResult.ok THEN Throw(JsonSyntaxError, <<"JSON.parse">>)
    ELSE LET scrNoId == zParse(scrNoIdSchema, parsedResult.val) IN
         IF ~scrNoId.success
         THEN Throw(ZodError(scrNoId.issues),
                    <<"JSON.parse", "scrNoIdSchema.parse">>)
         ELSE Fetch(request(Show(url) \o "/" \o scrsPath \o "/" \o Show(topic),
                            POST_METHOD, JSONstringify(scrNoId.data), token),
                    "text",
                    <<"JSON.parse", "scrNoIdSchema.parse", "JSON.stringify",
                      "request", "fetch">>)

\* mutant: offline, the text of the file is not looked at
postScrFileLoadedOfflineFirst(url, topic, result, token) ==
    IF local THEN Return(RetText(OK), <<"local">>)
    ELSE LET parsedResult == JSONparse(result) IN
         IF ~parsedResult.ok THEN Throw(JsonSyntaxError, <<"JSON.parse">>)
         ELSE LET scrNoId == zParse(scrNoIdSchema, parsedResult.val) IN
              IF ~scrNoId.success
              THEN Throw(ZodError(scrNoId.issues),
                         <<"JSON.parse", "scrNoIdSchema.parse">>)
              ELSE After(<<"JSON.parse", "scrNoIdSchema.parse">>,
                         postContent(url, topic, scrNoId.data, token))

postScrFileLoaded(url, topic, result, token) ==
    LET parsedResult == JSONparse(result) IN
    IF ~parsedResult.ok THEN Throw(JsonSyntaxError, <<"JSON.parse">>)
    ELSE LET scrNoId == zParse(scrNoIdSchema, parsedResult.val) IN
         IF ~scrNoId.success
         THEN Throw(ZodError(scrNoId.issues),
                    <<"JSON.parse", "scrNoIdSchema.parse">>)
         ELSE After(<<"JSON.parse", "scrNoIdSchema.parse">>,
                    postContent(url, topic, scrNoId.data, token))

\* mutant: the parameters are rejected only when both are missing
putContentBothMissing(url, topic, scr, id, token) ==
    IF local THEN Return(RetText(OK), <<"local">>)
    ELSE IF IsMissing(id) /\ IsMissing(token)
    THEN Throw(Error(<<RawTok("Check parameters: " \o Show(id) \o ", "
                                 \o Show(token))>>), <<"local">>)
    ELSE LET parsed == zParse(scrSchema, scr) IN
         IF ~parsed.success
         THEN Throw(ZodError(parsed.issues), <<"local", "scrSchema.parse">>)
         ELSE Fetch(request(Show(url) \o "/" \o scrsPath \o "/" \o Show(topic)
                            \o "/" \o Show(id),
                            PUT_METHOD, JSONstringify(scr), token),
                    "text",
                    <<"local", "scrSchema.parse", "JSON.stringify", "request",
                      "fetch">>)

\* mutant: the record is validated against the contract without id
putContentNoIdSchema(url, topic, scr, id, token) ==
    IF local THEN Return(RetText(OK), <<"local">>)
    ELSE IF IsMissing(id) \/ IsMissing(token)
    THEN Throw(Error(<<RawTok("Check parameters: " \o Show(id) \o ", "
                                 \o Show(token))>>), <<"local">>)
    ELSE LET parsed == zParse(scrNoIdSchema, scr) IN
         IF ~parsed.success
         THEN Throw(ZodError(parsed.issues), <<"local", "scrSchema.parse">>)
         ELSE Fetch(request(Show(url) \o "/" \o scrsPath \o "/" \o Show(topic)
                            \o "/" \o Show(id),
                            PUT_METHOD, JSONstringify(scr), token),
                    "text",
                    <<"local", "scrSchema.parse", "JSON.stringify", "request",
                      "fetch">>)

putContent(url, topic, scr, id, token) ==
    IF local THEN Return(RetText(OK), <<"local">>)
    ELSE IF IsMissing(id) \/ IsMissing(token)
    THEN Throw(Error(<<RawTok("Check parameters: " \o Show(id) \o ", "
                                 \o Show(token))>>), <<"local">>)
    ELSE LET parsed == zParse(scrSchema, scr) IN
         IF ~parsed.success
         THEN Throw(ZodError(parsed.issues), <<"local", "scrSchema.parse">>)
         ELSE Fetch(request(Show(url) \o "/" \o scrsPath \o "/" \o Show(topic)
                            \o "/" \o Show(id),
                            PUT_METHOD, JSONstringify(scr), token),
                    "text",
                    <<"local", "scrSchema.parse", "JSON.stringify", "request",
                      "fetch">>)

\* mutant: deleteWithId refuses a missing id or token as putContent does
deleteWithIdChecksArguments(url, topic, id, token) ==
    IF IsMissing(id) \/ IsMissing(token)
    THEN Throw(Error(<<RawTok("Check parameters: " \o Show(id) \o ", "
                                 \o Show(token))>>), <<>>)
    ELSE Fetch(request(Show(url) \o "/" \o scrsPath \o "/" \o Show(topic) \o "/"
                       \o Show(id),
                       DELETE_METHOD, <<>>, token),
               "text", <<"request", "fetch">>)

deleteWithId(url, topic, id, token) ==
    Fetch(request(Show(url) \o "/" \o scrsPath \o "/" \o Show(topic) \o "/"
                  \o Show(id),
                  DELETE_METHOD, <<>>, token),
          "text", <<"request", "fetch">>)

\* getFileContent(file) up to the end of the promise executor. For an
\* undefined file the executor rejects and goes on: it constructs the reader
\* and calls readAsText(undefined), whose TypeError the settled promise drops.
getFileContent(file) ==
    IF ~file.def
    THEN [reading |-> FALSE,
          err |-> Rejection(<<RawTok("Undefined file provided")>>),
          readers |-> 1, readAsText |-> 1,
          trace |-> <<"getFileContent", "reject", "new FileReader",
                      "readAsText">>]
    ELSE [reading |-> TRUE, err |-> NoErr, readers |-> 1, readAsText |-> 1,
          trace |-> <<"getFileContent", "new FileReader", "readAsText">>]

\* reader.onerror: the promise is rejected with a message naming the file
fileReadError(file) ==
    Rejection(<<RawTok("Unable to get Content of " \o file.name \o ": "
                       \o "NotReadableError")>>)

\* request() after fetch resolved with a non-ok response and its text was
\* read: new Error(`${await response.text()}, ${response.statusText}`)
requestFailed(resp) ==
    Error(resp.body \o <<RawTok(", " \o resp.statusText)>>)

\* mutant: every operation hands back the raw text of the body
readBodyTextOnly(resp, as) ==
    [kind |-> "value", ret |-> RetText(resp.body), err |-> NoErr]

\* `await response.json()` / `await response.text()` of the caller
readBody(resp, as) ==
    IF as = "json"
    THEN LET r == JSONparse(resp.body) IN
         IF r.ok THEN [kind |-> "value", ret |-> RetJson(r.val), err |-> NoErr]
         ELSE [kind |-> "error", ret |-> NoRet, err |-> JsonSyntaxError]
    ELSE [kind |-> "value", ret |-> RetText(resp.body), err |-> NoErr]

---------------------------------------------------------------------------
(* The state machine: invocations of the operations                        *)

\* the invocation slots; Spec runs one invocation at a time, in slot 1
Invocations == {1, 2}

NoArgs ==
    [url |-> Undefined, topic |-> Undefined, h3Index |-> Undefined,
     keywords |-> Undefined, id |-> Undefined, token |-> Undefined,
     scr |-> JUndef, file |-> NoFile]

NoOutcome == [kind |-> "none", ret |-> NoRet, err |-> NoErr]

\* an invocation: the operation and its arguments, where it is suspended,
\* the value of `local` when it was called, the requests it handed to fetch,
\* the FileReaders it constructed and its calls of readAsText, the response
\* it is consuming, each value of `local` it read, the calls it made in
\* order, and how it settled
Idle ==
    [op |-> "", args |-> NoArgs, pc |-> "idle", localAtCall |-> FALSE,
     fetches |-> <<>>,
     readers |-> 0, readAsText |-> 0, resp |-> NoResponse, as |-> "",
     localRead |-> <<>>, trace |-> <<>>, outcome |-> NoOutcome]

\* the invocation `rec` after the synchronous run with effect `eff`
Apply(rec, eff) ==
    LET seen == IF \E i \in 1..Len(eff.trace) : eff.trace[i] = "local"
                THEN Append(rec.localRead, local) ELSE rec.localRead
        r == [rec EXCEPT !.trace = @ \o eff.trace, !.localRead = seen]
    IN CASE eff.e = "return" ->
               [r EXCEPT !.pc = "done",
                         !.outcome = [kind |-> "value", ret |-> eff.ret,
                                      err |-> NoErr]]
         [] eff.e = "throw" ->
               [r EXCEPT !.pc = "done",
                         !.outcome = [kind |-> "error", ret |-> NoRet,
                                      err |-> eff.err]]
         [] eff.e = "fetch" ->
               [r EXCEPT !.pc = "awaitFetch", !.as = eff.as,
                         !.fetches = Append(@, eff.req)]

\* a fresh invocation of `op` after its synchronous run with effect `eff`
Begin(op, args, eff) ==
    Apply([Idle EXCEPT !.op = op, !.args = args, !.localAtCall = local], eff)

Init ==
    /\ local \in BOOLEAN
    /\ call = [c \in Invocations |-> Idle]

\* test or debug setup writes the flag
SetLocal(b) ==
    /\ local # b
    /\ local' = b
    /\ UNCHANGED call

CallGetContentsAtLocation(c) ==
    /\ call[c].pc = "idle"
    /\ \E url \in Urls, topic \in Topics, h3Index \in H3Indexes,
       keywords \in KeywordArgs :
        call' = [call EXCEPT ![c] =
              Begin("getContentsAtLocation",
                     [NoArgs EXCEPT !.url = url, !.topic = topic,
                                    !.h3Index = h3Index, !.keywords = keywords],
                     getContentsAtLocation(url, topic, h3Index, keywords))]
    /\ UNCHANGED local

CallGetContentAtLocation(c) ==
    /\ call[c].pc = "idle"
    /\ \E url \in Urls, topic \in Topics, h3Index \in H3Indexes,
       keywords \in KeywordArgs :
        call' = [call EXCEPT ![c] =
              Begin("getContentAtLocation",
                     [NoArgs EXCEPT !.url = url, !.topic = topic,
                                    !.h3Index = h3Index, !.keywords = keywords],
                     getContentAtLocation(url, topic, h3Index, keywords))]
    /\ UNCHANGED local

CallGetContentWithId(c) ==
    /\ call[c].pc = "idle"
    /\ \E url \in Urls, topic \in Topics, id \in Ids :
        call' = [call EXCEPT ![c] =
              Begin("getContentWithId",
                     [NoArgs EXCEPT !.url = url, !.topic = topic, !.id = id],
                     getContentWithId(url, topic, id))]
    /\ UNCHANGED local

CallSearchContentsForTenant(c) ==
    /\ call[c].pc = "idle"
    /\ \E url \in Urls, topic \in Topics, token \in Tokens :
        call' = [call EXCEPT ![c] =
              Begin("searchContentsForTenant",
                     [NoArgs EXCEPT !.url = url, !.topic = topic, !.token = token],
                     searchContentsForTenant(url, topic, token))]
    /\ UNCHANGED local

CallPostContent(c) ==
    /\ call[c].pc = "idle"
    /\ \E url \in Urls, topic \in Topics, scr \in Records, token \in Tokens :
        call' = [call EXCEPT ![c] =
              Begin("postContent",
                     [NoArgs EXCEPT !.url = url, !.topic = topic, !.scr = scr,
                                    !.token = token],
                     postContent(url, topic, scr, token))]
    /\ UNCHANGED local

CallPutContent(c) ==
    /\ call[c].pc = "idle"
    /\ \E url \in Urls, topic \in Topics, scr \in Records, id \in Ids,
       token \in Tokens :
        call' = [call EXCEPT ![c] =
              Begin("putContent",
                     [NoArgs EXCEPT !.url = url, !.topic = topic, !.scr = scr,
                                    !.id = id, !.token = token],
                     putContent(url, topic, scr, id, token))]
    /\ UNCHANGED local

CallDeleteWithId(c) ==
    /\ call[c].pc = "idle"
    /\ \E url \in Urls, topic \in Topics, id \in Ids, token \in Tokens :
        call' = [call EXCEPT ![c] =
              Begin("deleteWithId",
                     [NoArgs EXCEPT !.url = url, !.topic = topic, !.id = id,
                                    !.token = token],
                     deleteWithId(url, topic, id, token))]
    /\ UNCHANGED local

\* postScrFile up to `await getFileContent(file)`
postScrFile(c, url, topic, file, token) ==
    LET g == getFileContent(file)
        rec == [Idle EXCEPT !.op = "postScrFile",
                            !.localAtCall = local,
                            !.args = [NoArgs EXCEPT !.url = url,
                                                    !.topic = topic,
                                                    !.file = file,
                                                    !.token = token],
                            !.readers = g.readers,
                            !.readAsText = g.readAsText,
                            !.trace = g.trace]
    IN /\ call[c].pc = "idle"
       /\ call' = [call EXCEPT ![c] =
                     IF g.reading THEN [rec EXCEPT !.pc = "awaitFile"]
                     ELSE [rec EXCEPT !.pc = "done",
                                      !.outcome = [kind |-> "error",
                                                   ret |-> NoRet,
                                                   err |-> g.err]]]
       /\ UNCHANGED local

CallPostScrFile(c) ==
    \E url \in Urls, topic \in Topics, file \in Files, token \in Tokens :
        postScrFile(c, url, topic, file, token)

\* reader.onload: the file's text arrives and postScrFile goes on
FileLoaded(c) ==
    /\ call[c].pc = "awaitFile"
    /\ LET a == call[c].args IN
       call' = [call EXCEPT ![c] =
                  Apply([call[c] EXCEPT !.trace = Append(@, "onload")],
                        postScrFileLoaded(a.url, a.topic, a.file.text, a.token))]
    /\ UNCHANGED local

\* reader.onerror
FileFailed(c) ==
    /\ call[c].pc = "awaitFile"
    /\ call' = [call EXCEPT ![c] =
                  [@ EXCEPT !.pc = "done",
                            !.trace = Append(@, "onerror"),
                            !.outcome = [kind |-> "error", ret |-> NoRet,
                                         err |-> fileReadError(call[c].args.file)]]]
    /\ UNCHANGED local

\* fetch resolves: request() checks response.ok
FetchResolved(c) ==
    /\ call[c].pc = "awaitFetch"
    /\ \E resp \in Responses :
        call' = [call EXCEPT ![c] =
                   [@ EXCEPT !.resp = resp,
                             !.pc = IF resp.ok THEN "awaitBody"
                                    ELSE "awaitErrorText"]]
    /\ UNCHANGED local

\* mutant: a rejected fetch is swallowed and the operation answers ''
FetchRejectedSwallowed(c) ==
    /\ call[c].pc = "awaitFetch"
    /\ call' = [call EXCEPT ![c] =
                  [@ EXCEPT !.pc = "done",
                            !.outcome = [kind |-> "value", ret |-> RetText(<<>>),
                                         err |-> NoErr]]]
    /\ UNCHANGED local

\* mutant: after a rejected fetch the module switches itself to offline
FetchRejectedGoesOffline(c) ==
    /\ call[c].pc = "awaitFetch"
    /\ call' = [call EXCEPT ![c] =
                  [@ EXCEPT !.pc = "done",
                            !.outcome = [kind |-> "error", ret |-> NoRet,
                                         err |-> TransportError]]]
    /\ local' = TRUE

\* fetch rejects: the transport could not complete the call
FetchRejected(c) ==
    /\ call[c].pc = "awaitFetch"
    /\ call' = [call EXCEPT ![c] =
                  [@ EXCEPT !.pc = "done",
                            !.outcome = [kind |-> "error", ret |-> NoRet,
                                         err |-> TransportError]]]
    /\ UNCHANGED local

\* mutant: a non-ok response makes request() send the request again
ErrorTextReadRetries(c) ==
    /\ call[c].pc = "awaitErrorText"
    /\ call' = [call EXCEPT ![c] =
                  [@ EXCEPT !.pc = "awaitFetch",
                            !.fetches = Append(@, call[c].fetches[1])]]
    /\ UNCHANGED local

\* the text of a non-ok response has been read: request() throws
ErrorTextRead(c) ==
    /\ call[c].pc = "awaitErrorText"
    /\ call' = [call EXCEPT ![c] =
                  [@ EXCEPT !.pc = "done",
                            !.outcome = [kind |-> "error", ret |-> NoRet,
                                         err |-> requestFailed(call[c].resp)]]]
    /\ UNCHANGED local

\* mutant: the response is kept in one place for all invocations, and the
\* body that is read is the one of the response that arrived last
BodyReadSharedResponse(c) ==
    /\ call[c].pc = "awaitBody"
    /\ LET others == {d \in Invocations : d # c /\ call[d].resp \in Responses}
           resp == IF others = {} THEN call[c].resp
                   ELSE call[CHOOSE d \in others : TRUE].resp
       IN call' = [call EXCEPT ![c] =
                     [@ EXCEPT !.pc = "done",
                               !.outcome = readBody(resp, call[c].as)]]
    /\ UNCHANGED local

\* response.json() or response.text() of an ok response settles
BodyRead(c) ==
    /\ call[c].pc = "awaitBody"
    /\ call' = [call EXCEPT ![c] =
                  [@ EXCEPT !.pc = "done",
                            !.outcome = readBody(call[c].resp, call[c].as)]]
    /\ UNCHANGED local

\* the caller has taken the outcome; the slot is free for the next call
Settled(c) ==
    /\ call[c].pc = "done"
    /\ call' = [call EXCEPT ![c] = Idle]
    /\ UNCHANGED local

Next ==
    \/ \E b \in BOOLEAN : SetLocal(b)
    \/ CallGetContentsAtLocation(1)
    \/ CallGetContentAtLocation(1)
    \/ CallGetContentWithId(1)
    \/ CallSearchContentsForTenant(1)
    \/ CallPostContent(1)
    \/ CallPostScrFile(1)
    \/ CallPutContent(1)
    \/ CallDeleteWithId(1)
    \/ FileLoaded(1)
    \/ FileFailed(1)
    \/ FetchResolved(1)
    \/ FetchRejected(1)
    \/ ErrorTextRead(1)
    \/ BodyRead(1)
    \/ Settled(1)

Spec == Init /\ [][Next]_vars

\* the transport and the file reader complete, and a completed await goes on
Fairness ==
    /\ WF_vars(FileFailed(1) \/ FileLoaded(1))
    /\ WF_vars(FetchResolved(1) \/ FetchRejected(1))
    /\ WF_vars(ErrorTextRead(1))
    /\ WF_vars(BodyRead(1))

FairSpec == Spec /\ Fairness

---------------------------------------------------------------------------
(* Two invocations at a time, of different operations, `local` unchanged   *)

\* the calls that are made two at a time
Call(op, args) == [op |-> op, args |-> args]
ConcurrentCalls ==
    LET at == [NoArgs EXCEPT !.url = Str("https://svc"), !.topic = Str("3d")]
        id == Str(Chars(MinIdLength))
    IN {Call("getContentsAtLocation",
             [at EXCEPT !.h3Index = Str("8928308280fffff"), !.keywords = k]) :
            k \in {Undefined, Str("cat")}}
       \cup {Call("getContentAtLocation",
                  [at EXCEPT !.h3Index = Str("8928308280fffff")]),
             Call("getContentWithId", [at EXCEPT !.id = id]),
             Call("getContentWithId", [at EXCEPT !.id = Str("a")]),
             Call("searchContentsForTenant", [at EXCEPT !.token = Str("tok")]),
             Call("putContent",
                  [at EXCEPT !.scr = recWithId, !.id = id, !.token = Str("tok")]),
             Call("deleteWithId", [at EXCEPT !.id = id, !.token = Str("tok")])}
       \cup {Call("postContent", [at EXCEPT !.scr = scr, !.token = Str("tok")]) :
                scr \in {recMinimal, recNoGeopose}}
       \cup {Call("postScrFile",
                  [at EXCEPT !.file = File("scr.json", text),
                             !.token = Str("tok")]) :
                text \in {JSONstringify(recMinimal), <<RawTok("hello")>>}}

\* the invocation of call k after its synchronous part
Started(k) ==
    LET a == k.args
        g == getFileContent(a.file)
    IN CASE k.op = "getContentsAtLocation" ->
              Begin(k.op, a, getContentsAtLocation(a.url, a.topic, a.h3Index,
                                                   a.keywords))
         [] k.op = "getContentAtLocation" ->
              Begin(k.op, a, getContentAtLocation(a.url, a.topic, a.h3Index,
                                                  a.keywords))
         [] k.op = "getContentWithId" ->
              Begin(k.op, a, getContentWithId(a.url, a.topic, a.id))
         [] k.op = "searchContentsForTenant" ->
              Begin(k.op, a, searchContentsForTenant(a.url, a.topic, a.token))
         [] k.op = "postContent" ->
              Begin(k.op, a, postContent(a.url, a.topic, a.scr, a.token))
         [] k.op = "putContent" ->
              Begin(k.op, a, putContent(a.url, a.topic, a.scr, a.id, a.token))
         [] k.op = "deleteWithId" ->
              Begin(k.op, a, deleteWithId(a.url, a.topic, a.id, a.token))
         [] k.op = "postScrFile" ->
              LET rec == [Idle EXCEPT !.op = k.op, !.localAtCall = local,
                                      !.args = a, !.readers = g.readers,
                                      !.readAsText = g.readAsText,
                                      !.trace = g.trace]
              IN IF g.reading THEN [rec EXCEPT !.pc = "awaitFile"]
                 ELSE [rec EXCEPT !.pc = "done",
                                  !.outcome = [kind |-> "error", ret |-> NoRet,
                                               err |-> g.err]]

\* an operation is called while the other invocation runs another operation
ConcurrentCall(c) ==
    /\ call[c].pc = "idle"
    /\ \E k \in ConcurrentCalls :
        /\ \A d \in Invocations \ {c} : call[d].op # k.op
        /\ call' = [call EXCEPT ![c] = Started(k)]
    /\ UNCHANGED local

ConcurrentNext ==
    \E c \in Invocations :
        \/ ConcurrentCall(c)
        \/ FileLoaded(c)
        \/ FileFailed(c)
        \/ FetchResolved(c)
        \/ FetchRejected(c)
        \/ ErrorTextRead(c)
        \/ BodyRead(c)
        \/ Settled(c)

ConcurrentSpec == Init /\ [][ConcurrentNext]_vars

TypeOK ==
    /\ local \in BOOLEAN
    /\ \A c \in Invocations :
        call[c].pc \in {"idle", "awaitFile", "awaitFetch", "awaitBody",
                        "awaitErrorText", "done"}

---------------------------------------------------------------------------
(* Properties                                                              *)

Settles(c) == call[c].pc = "done"
Returned(c, ret) ==
    /\ Settles(c)
    /\ call[c].outcome.kind = "value"
    /\ call[c].outcome.ret = ret
Failed(c) == Settles(c) /\ call[c].outcome.kind = "error"
\* failed with new Error(`message`)
FailedWith(c, message) ==
    /\ Failed(c)
    /\ call[c].outcome.err.name = "Error"
    /\ call[c].outcome.err.message = <<RawTok(message)>>
NoFetch(c) == call[c].fetches = <<>>

NetworkOperations ==
    {"getContentsAtLocation", "getContentWithId", "searchContentsForTenant",
     "postContent", "postScrFile", "putContent", "deleteWithId"}

\* C1: an operation called while `local` is true makes no fetch call and
\* returns localResults, localResult or "OK".
C1_LocalSkipsNetwork ==
    \A c \in Invocations :
        (call[c].op \in NetworkOperations /\ call[c].localAtCall) =>
            /\ NoFetch(c)
            /\ Settles(c) =>
                 \/ Returned(c, RetJson(localResults))
                 \/ Returned(c, RetJson(localResult))
                 \/ Returned(c, RetText(OK))

\* C2: with `local` true, postContent returns exactly "OK" and
\* getContentsAtLocation returns the two fixture records a3683f12b334dea6 and
\* d44a6818c119b51e in that order, whatever the arguments, without a fetch.
C2_LocalBeforeChecks ==
    \A c \in Invocations :
        /\ (call[c].op = "postContent" /\ call[c].localAtCall) =>
              Returned(c, RetText(<<RawTok("OK")>>)) /\ NoFetch(c)
        /\ (call[c].op = "getContentsAtLocation" /\ call[c].localAtCall) =>
              /\ Settles(c) /\ call[c].outcome.kind = "value" /\ NoFetch(c)
              /\ call[c].outcome.ret.rt = "json"
              /\ call[c].outcome.ret.j.t = "arr"
              /\ Len(call[c].outcome.ret.j.v) = 2
              /\ Get(call[c].outcome.ret.j.v[1], "id") = JStr("a3683f12b334dea6")
              /\ Get(call[c].outcome.ret.j.v[2], "id") = JStr("d44a6818c119b51e")

\* postContent answered "OK" offline although token is empty and the record
\* has no geopose
C2_Witness ==
    \E c \in Invocations :
        /\ call[c].op = "postContent" /\ call[c].localAtCall
        /\ call[c].args.token = Str("") /\ call[c].args.topic = Str("")
        /\ call[c].args.scr = recNoGeopose
        /\ Returned(c, RetText(OK))

\* C3: with `local` false, getContentsAtLocation with a missing topic or
\* h3Index fails with the argument error and never fetches; otherwise it makes
\* exactly one GET request.
C3_LocationArguments ==
    \A c \in Invocations :
        (call[c].op = "getContentsAtLocation" /\ ~call[c].localAtCall) =>
            LET a == call[c].args IN
            IF (~a.topic.def) \/ a.topic.s = "" \/ (~a.h3Index.def)
               \/ a.h3Index.s = ""
            THEN /\ NoFetch(c)
                 /\ FailedWith(c, "Check parameters: " \o Show(a.topic) \o " "
                                  \o Show(a.h3Index))
            ELSE /\ Len(call[c].fetches) = 1
                 /\ call[c].fetches[1].method = "get"

\* a call with a topic and an undefined h3Index has failed
C3_Witness ==
    \E c \in Invocations :
        /\ call[c].op = "getContentsAtLocation" /\ ~call[c].localAtCall
        /\ call[c].args.topic = Str("3d") /\ call[c].args.h3Index = Undefined
        /\ Failed(c) /\ NoFetch(c)

\* C4: with `local` false, getContentWithId with an undefined id or one
\* shorter than 16 characters fails with the argument error without a fetch;
\* with 16 characters or more it requests GET {url}/scrs/{topic}/{id}.
C4_IdLengthBoundary ==
    \A c \in Invocations :
        (call[c].op = "getContentWithId" /\ ~call[c].localAtCall) =>
            LET a == call[c].args IN
            IF (~a.id.def) \/ Len(a.id.s) <= 15
            THEN NoFetch(c) /\ FailedWith(c, "Check parameters: " \o Show(a.id))
            ELSE /\ Len(call[c].fetches) = 1
                 /\ call[c].fetches[1].method = "get"
                 /\ call[c].fetches[1].url =
                      a.url.s \o "/scrs/" \o Show(a.topic) \o "/" \o a.id.s

\* an id of exactly 16 characters has been requested
C4_Witness ==
    \E c \in Invocations :
        /\ call[c].op = "getContentWithId" /\ ~call[c].localAtCall
        /\ call[c].args.id.def /\ Len(call[c].args.id.s) = 16
        /\ call[c].args.topic = Str("3d")
        /\ Len(call[c].fetches) = 1
        /\ call[c].fetches[1].url = "https://svc/scrs/3d/aaaaaaaaaaaaaaaa"

\* C5: with `local` false, postContent with an undefined or empty token fails
\* with the 'Check parameter' error before any fetch, also when the record is
\* invalid: the argument error is reported, not the schema violation.
C5_TokenBeforeSchema ==
    \A c \in Invocations :
        (/\ call[c].op = "postContent" /\ ~call[c].localAtCall
         /\ ((~call[c].args.token.def) \/ call[c].args.token.s = "")) =>
            /\ NoFetch(c)
            /\ FailedWith(c, "Check parameter: " \o Show(call[c].args.token))

\* token empty and record without geopose: the argument error
C5_Witness ==
    \E c \in Invocations :
        /\ call[c].op = "postContent" /\ ~call[c].localAtCall
        /\ call[c].args.token = Str("") /\ call[c].args.scr = recNoGeopose
        /\ FailedWith(c, "Check parameter: ")

\* the record passes the contract `schema`
Conforms(schema, scr) == zIssues(schema, scr, "") = {}

\* C6: with `local` false and a non-empty token, postContent fails without a
\* fetch for every record that violates the SCR-no-id contract, and issues
\* its POST only for a record that passes.
C6_PostValidatesFirst ==
    \A c \in Invocations :
        (/\ call[c].op = "postContent" /\ ~call[c].localAtCall
         /\ call[c].args.token.def /\ call[c].args.token.s # "") =>
            LET scr == call[c].args.scr IN
            /\ IF Conforms(scrNoIdSchema, scr)
               THEN /\ Len(call[c].fetches) = 1
                    /\ call[c].fetches[1].method = "post"
               ELSE /\ NoFetch(c) /\ Failed(c)
                    /\ call[c].outcome.err.name = "ZodError"
            /\ scr \in {recNoGeopose, recTwoViolations, recBadRef, JUndef}
                 => NoFetch(c)
            /\ scr = recMinimal => ~NoFetch(c)

\* a record without geopose was refused although the token is there
C6_Witness ==
    \E c \in Invocations :
        /\ call[c].op = "postContent" /\ ~call[c].localAtCall
        /\ call[c].args.token = Str("tok") /\ call[c].args.scr = recNoGeopose
        /\ Failed(c) /\ NoFetch(c)
        /\ Issue("content.geopose", "invalid_type") \in call[c].outcome.err.issues

\* the place of the first `step` among the calls made, 0 when it was not made
Index(trace, step) ==
    IF \E i \in 1..Len(trace) : trace[i] = step
    THEN CHOOSE i \in 1..Len(trace) :
            trace[i] = step /\ \A j \in 1..(i - 1) : trace[j] # step
    ELSE 0
Made(trace, step) == Index(trace, step) > 0
\* `step` was made only after `earlier`
OnlyAfter(trace, step, earlier) ==
    Made(trace, step) =>
        Made(trace, earlier) /\ Index(trace, earlier) < Index(trace, step)

\* C7: postScrFile reads the file, then parses the text, then validates the
\* value, and only then calls postContent; when the read fails, the text is
\* no JSON or the value violates the SCR-no-id contract, the call fails and
\* makes no fetch.
C7_FileThenParseThenValidate ==
    \A c \in Invocations :
        call[c].op = "postScrFile" =>
            LET t == call[c].trace
                file == call[c].args.file
                parsed == JSONparse(file.text)
                bad == \/ ~file.def
                       \/ Made(t, "onerror")
                       \/ ~parsed.ok
                       \/ ~Conforms(scrNoIdSchema, parsed.val)
            IN /\ OnlyAfter(t, "JSON.parse", "onload")
               /\ OnlyAfter(t, "onload", "readAsText")
               /\ OnlyAfter(t, "scrNoIdSchema.parse", "JSON.parse")
               /\ OnlyAfter(t, "postContent", "scrNoIdSchema.parse")
               /\ OnlyAfter(t, "fetch", "postContent")
               /\ bad => /\ NoFetch(c)
                         /\ ~Made(t, "postContent")
                         /\ call[c].pc \in {"awaitFile", "done"}
                         /\ Settles(c) => Failed(c)

\* a file that parses but has no geopose: refused after the three steps
C7_Witness ==
    \E c \in Invocations :
        /\ call[c].op = "postScrFile"
        /\ call[c].args.file = File("scr.json", JSONstringify(recNoGeopose))
        /\ call[c].trace = <<"getFileContent", "new FileReader", "readAsText",
                             "onload", "JSON.parse", "scrNoIdSchema.parse">>
        /\ Failed(c) /\ NoFetch(c)
        /\ call[c].outcome.err.name = "ZodError"

\* C8: with `local` false, putContent fails with the argument error and makes
\* no fetch when id is undefined or empty or token is undefined or empty,
\* whatever the record.
C8_PutArguments ==
    \A c \in Invocations :
        LET a == call[c].args IN
        (/\ call[c].op = "putContent" /\ ~call[c].localAtCall
         /\ \/ ~a.id.def \/ a.id.s = ""
            \/ ~a.token.def \/ a.token.s = "") =>
            /\ NoFetch(c)
            /\ FailedWith(c, "Check parameters: " \o Show(a.id) \o ", "
                             \o Show(a.token))

\* a valid record and an id, but an empty token
C8_Witness ==
    \E c \in Invocations :
        /\ call[c].op = "putContent" /\ ~call[c].localAtCall
        /\ call[c].args.id = Str("aaaaaaaaaaaaaaaa")
        /\ call[c].args.token = Str("") /\ call[c].args.scr = recWithId
        /\ Failed(c) /\ NoFetch(c)

\* C9: with `local` false and id and token given, putContent fails without a
\* fetch for a record that has no top-level id or is otherwise invalid, and
\* for a valid record makes exactly one PUT to {url}/scrs/{topic}/{id}, the id
\* being the parameter, with the whole serialised record as its body.
C9_PutValidatesFullContract ==
    \A c \in Invocations :
        LET a == call[c].args IN
        (/\ call[c].op = "putContent" /\ ~call[c].localAtCall
         /\ a.id.def /\ a.id.s # "" /\ a.token.def /\ a.token.s # "") =>
            IF Get(a.scr, "id").t = "str" /\ Conforms(scrNoIdSchema, a.scr)
            THEN /\ Len(call[c].fetches) = 1
                 /\ LET req == call[c].fetches[1] IN
                    /\ req.method = "put"
                    /\ req.url = a.url.s \o "/scrs/" \o Show(a.topic) \o "/"
                                 \o a.id.s
                    /\ req.hasBody
                    /\ JSONparse(req.body) = Parsed(a.scr, <<>>)
            ELSE /\ NoFetch(c) /\ Failed(c)
                 /\ call[c].outcome.err.name = "ZodError"

\* a record that is valid but for its missing top-level id was refused
C9_Witness ==
    \E c \in Invocations :
        /\ call[c].op = "putContent" /\ ~call[c].localAtCall
        /\ call[c].args.id = Str("aaaaaaaaaaaaaaaa")
        /\ call[c].args.token = Str("tok") /\ call[c].args.scr = recMinimal
        /\ Failed(c) /\ NoFetch(c)
        /\ call[c].outcome.err.issues = {Issue("id", "invalid_type")}

\* a valid record went out whole, to the id of the parameter
C9_SentWhole ==
    \E c \in Invocations :
        /\ call[c].op = "putContent" /\ call[c].args.scr = localResult
        /\ call[c].args.id = Str("aaaaaaaaaaaaaaaa")
        /\ call[c].args.topic = Str("3d")
        /\ Len(call[c].fetches) = 1
        /\ call[c].fetches[1].url = "https://svc/scrs/3d/aaaaaaaaaaaaaaaa"
        /\ \E i \in 1..Len(call[c].fetches[1].body) :
              call[c].fetches[1].body[i] = StrTok("url")

HasHeader(req, name, value) ==
    \E i \in 1..Len(req.headers) : req.headers[i] = Header(name, value)

\* C10: searchContentsForTenant never sends a request to
\* {url}/tenant/scrs/{topic} without the header Authorization: Bearer {token}.
C10_TenantSearchAuthorized ==
    \A c \in Invocations :
        call[c].op = "searchContentsForTenant" =>
            \A i \in 1..Len(call[c].fetches) :
                /\ call[c].args.token.def /\ call[c].args.token.s # ""
                /\ HasHeader(call[c].fetches[i], "authorization",
                             "Bearer " \o call[c].args.token.s)

HeaderNames(req) == {req.headers[i].name : i \in 1..Len(req.headers)}

\* C11: every request handed to fetch carries Accept:
\* application/vnd.oscp+json; version=1.0 and Content-Type: application/json,
\* and carries Authorization: Bearer {token} exactly when a non-empty token
\* was supplied; getContentsAtLocation and getContentWithId never send an
\* Authorization header.
C11_RequestHeaders ==
    \A c \in Invocations :
        \A i \in 1..Len(call[c].fetches) :
            LET req == call[c].fetches[i]
                token == call[c].args.token
            IN /\ HasHeader(req, "accept", "application/vnd.oscp+json; version=1.0")
               /\ HasHeader(req, "content-type", "application/json")
               /\ IF token.def /\ token.s # ""
                  THEN HasHeader(req, "authorization", "Bearer " \o token.s)
                  ELSE "authorization" \notin HeaderNames(req)
               /\ call[c].op \in {"getContentsAtLocation", "getContentAtLocation",
                                  "getContentWithId"}
                    => "authorization" \notin HeaderNames(req)

\* C11 as the code has it: the accept value ends in a semicolon,
\* application/vnd.oscp+json; version=1.0; and the rest is as claimed.
C11_RequestHeadersAsSent ==
    \A c \in Invocations :
        \A i \in 1..Len(call[c].fetches) :
            LET req == call[c].fetches[i]
                token == call[c].args.token
            IN /\ HasHeader(req, "accept", "application/vnd.oscp+json; version=1.0;")
               /\ HasHeader(req, "content-type", "application/json")
               /\ IF token.def /\ token.s # ""
                  THEN /\ HasHeader(req, "authorization", "Bearer " \o token.s)
                       /\ Len(req.headers) = 3
                  ELSE /\ "authorization" \notin HeaderNames(req)
                       /\ Len(req.headers) = 2
               /\ call[c].op \in {"getContentsAtLocation", "getContentAtLocation",
                                  "getContentWithId"}
                    => "authorization" \notin HeaderNames(req)

\* a tenant search with an empty token went out with the two fixed headers
\* only
C11_Witness ==
    \E c \in Invocations :
        /\ call[c].op = "searchContentsForTenant"
        /\ call[c].args.token = Str("")
        /\ Len(call[c].fetches) = 1
        /\ call[c].fetches[1].headers =
             <<Header("accept", "application/vnd.oscp+json; version=1.0;"),
               Header("content-type", "application/json")>>

\* C12: the fetch options have a body exactly for the create (post) and
\* replace (put) requests; get and delete requests have no body key, although
\* their callers pass the body ''.
C12_BodyOnlyForPostAndPut ==
    \A c \in Invocations :
        \A i \in 1..Len(call[c].fetches) :
            LET req == call[c].fetches[i] IN
            /\ req.hasBody <=> req.method \in {"post", "put"}
            /\ req.hasBody <=>
                 call[c].op \in {"postContent", "postScrFile", "putContent"}
            /\ req.method \in {"get", "delete"} => ~req.hasBody /\ req.body = <<>>

\* a delete request went out without a body key
C12_Witness ==
    \E c \in Invocations :
        /\ call[c].op = "deleteWithId"
        /\ Len(call[c].fetches) = 1
        /\ call[c].fetches[1].method = "delete"
        /\ ~call[c].fetches[1].hasBody

\* C13: every request is made with the method and to the path of its
\* operation: getContentsAtLocation get {url}/scrs/{topic}?h3Index=...,
\* getContentWithId get {url}/scrs/{topic}/{id}, searchContentsForTenant get
\* {url}/tenant/scrs/{topic}, postContent post {url}/scrs/{topic}, putContent
\* put {url}/scrs/{topic}/{id}, deleteWithId delete {url}/scrs/{topic}/{id}.
C13_MethodAndPath ==
    \A c \in Invocations :
        \A i \in 1..Len(call[c].fetches) :
            LET req == call[c].fetches[i]
                a == call[c].args
                content == a.url.s \o "/scrs/" \o Show(a.topic)
                byId == content \o "/" \o Show(a.id)
                op == call[c].op
            IN CASE op \in {"getContentsAtLocation", "getContentAtLocation"} ->
                      /\ req.method = "get"
                      /\ req.url \in
                           {content \o "?h3Index=" \o a.h3Index.s,
                            content \o "?h3Index=" \o a.h3Index.s
                                    \o "&keywords=" \o Show(a.keywords)}
                 [] op = "getContentWithId" ->
                      req.method = "get" /\ req.url = byId
                 [] op = "searchContentsForTenant" ->
                      /\ req.method = "get"
                      /\ req.url = a.url.s \o "/tenant/scrs/" \o Show(a.topic)
                 [] op \in {"postContent", "postScrFile"} ->
                      req.method = "post" /\ req.url = content
                 [] op = "putContent" ->
                      req.method = "put" /\ req.url = byId
                 [] op = "deleteWithId" ->
                      req.method = "delete" /\ req.url = byId
                 [] OTHER -> FALSE

\* the tenant search asked for https://svc/tenant/scrs/3d
C13_Witness ==
    \E c \in Invocations :
        /\ call[c].op = "searchContentsForTenant"
        /\ Len(call[c].fetches) = 1
        /\ call[c].fetches[1].method = "get"
        /\ call[c].fetches[1].url = "https://svc/tenant/scrs/3d"

ReadOperations ==
    {"getContentsAtLocation", "getContentAtLocation", "getContentWithId",
     "searchContentsForTenant"}
WriteOperations == {"postContent", "postScrFile", "putContent", "deleteWithId"}

\* fetch of invocation c has resolved with a response
Answered(c) == call[c].resp \in Responses

\* C14: when the response is not ok the operation fails with an Error whose
\* message is the body text followed by the status text, and yields no value;
\* when it is ok a read operation yields the body parsed as JSON and a write
\* operation yields the body text as it is.
C14_ResponseHandling ==
    \A c \in Invocations :
        Answered(c) =>
            LET resp == call[c].resp
                parsed == JSONparse(resp.body)
            IN /\ call[c].outcome.kind = "value" => resp.ok
               /\ (Settles(c) /\ ~resp.ok) =>
                     /\ Failed(c)
                     /\ call[c].outcome.err.name = "Error"
                     /\ call[c].outcome.err.message =
                          resp.body \o <<RawTok(", " \o resp.statusText)>>
               /\ (Settles(c) /\ resp.ok /\ call[c].op \in ReadOperations) =>
                     IF parsed.ok
                     THEN Returned(c, RetJson(parsed.val))
                     ELSE Failed(c) /\ call[c].outcome.err.name = "SyntaxError"
               /\ (Settles(c) /\ resp.ok /\ call[c].op \in WriteOperations) =>
                     Returned(c, RetText(resp.body))

\* getContentWithId got 404 and failed with "no such record, Not Found"
C14_Witness ==
    \E c \in Invocations :
        /\ call[c].op = "getContentWithId"
        /\ Answered(c) /\ ~call[c].resp.ok
        /\ Failed(c)
        /\ call[c].outcome.err.message =
             <<RawTok("no such record"), RawTok(", Not Found")>>

\* a read gave the parsed record back, a write gave the text back
C14_ReadParsed ==
    \E c \in Invocations :
        /\ call[c].op = "searchContentsForTenant"
        /\ call[c].resp = Response(TRUE, "OK", JSONstringify(recWithId))
        /\ Returned(c, RetJson(recWithId))
C14_WriteRaw ==
    \E c \in Invocations :
        /\ call[c].op = "deleteWithId"
        /\ call[c].resp = Response(TRUE, "OK", JSONstringify(recWithId))
        /\ Returned(c, RetText(JSONstringify(recWithId)))

\* C15: the URL requested by getContentsAtLocation carries the query
\* parameter h3Index, followed by a keywords parameter exactly when the
\* keywords argument is a non-empty string; with empty or omitted keywords
\* the URL ends after the h3Index value.
C15_KeywordsOnlyWhenGiven ==
    \A c \in Invocations :
        call[c].op \in {"getContentsAtLocation", "getContentAtLocation"} =>
            \A i \in 1..Len(call[c].fetches) :
                LET a == call[c].args
                    withIndex == a.url.s \o "/scrs/" \o a.topic.s
                                 \o "?h3Index=" \o a.h3Index.s
                    given == a.keywords.def /\ a.keywords.s # ""
                IN call[c].fetches[i].url =
                     IF given THEN withIndex \o "&keywords=" \o a.keywords.s
                     ELSE withIndex

\* called with keywords '' the request went to ...?h3Index=8928308280fffff
C15_Witness ==
    \E c \in Invocations :
        /\ call[c].op = "getContentsAtLocation"
        /\ call[c].args.keywords = Str("")
        /\ Len(call[c].fetches) = 1
        /\ call[c].fetches[1].url = "https://svc/scrs/3d?h3Index=8928308280fffff"

\* called with keywords 'cat' the parameter is there
C15_WithKeywords ==
    \E c \in Invocations :
        /\ call[c].op = "getContentsAtLocation"
        /\ Len(call[c].fetches) = 1
        /\ call[c].fetches[1].url =
             "https://svc/scrs/3d?h3Index=8928308280fffff&keywords=cat"

\* C16: one invocation calls fetch at most once and reads a file at most
\* once; an operation other than postScrFile reads no file; no failure is
\* followed by a second request.
C16_AtMostOneFetchAndRead ==
    \A c \in Invocations :
        /\ Len(call[c].fetches) <= 1
        /\ call[c].readers <= 1
        /\ call[c].readAsText <= 1
        /\ call[c].op # "postScrFile" =>
              call[c].readers = 0 /\ call[c].readAsText = 0
        /\ Failed(c) =>
              Len(SelectSeq(call[c].trace, LAMBDA s : s = "fetch")) <= 1

\* postScrFile read its file once, posted once, was refused by the server
\* and failed
C16_Witness ==
    \E c \in Invocations :
        /\ call[c].op = "postScrFile"
        /\ Answered(c) /\ ~call[c].resp.ok
        /\ Failed(c)
        /\ Len(call[c].fetches) = 1
        /\ call[c].readAsText = 1

\* the value is an SCR, or a list of SCRs
IsScrOrScrs(j) ==
    IF j.t = "arr"
    THEN \A i \in 1..Len(j.v) : Conforms(scrSchema, j.v[i])
    ELSE Conforms(scrSchema, j)

\* C17: a read operation (getContentsAtLocation, getContentWithId,
\* searchContentsForTenant) that was answered by the server returns only
\* values that satisfy the SCR schema: no record without content.geopose or
\* without id reaches the caller.
C17_ReadsAreValidated ==
    \A c \in Invocations :
        (call[c].op \in ReadOperations /\ Answered(c) /\ Settles(c)
            /\ call[c].outcome.kind = "value") =>
                /\ call[c].outcome.ret.rt = "json"
                /\ IsScrOrScrs(call[c].outcome.ret.j)

\* the operations whose URL path ends in /{id}
ByIdOperations == {"getContentWithId", "putContent", "deleteWithId"}

\* C18: no request of getContentWithId, putContent or deleteWithId is sent
\* with an id shorter than 16 characters.
C18_IdMinimumAtCallBoundary ==
    \A c \in Invocations :
        (call[c].op \in ByIdOperations /\ ~NoFetch(c)) =>
            /\ call[c].args.id.def
            /\ Len(call[c].args.id.s) >= MinIdLength

\* getContentWithId alone keeps the minimum
C18_GetByIdKeepsMinimum ==
    \A c \in Invocations :
        (call[c].op = "getContentWithId" /\ ~NoFetch(c)) =>
            /\ call[c].args.id.def
            /\ Len(call[c].args.id.s) >= MinIdLength

\* content.refs of a record
Refs(scr) == Get(Get(scr, "content"), "refs")

\* a Reference: contentType is a string and url is a string that is a URI
WellFormedRef(j) ==
    /\ j.t = "obj"
    /\ Get(j, "contentType").t = "str"
    /\ Get(j, "url").t = "str"
    /\ IsUrl(Get(j, "url").v[1])

BadRefs(scr) ==
    IF Refs(scr).t = "arr"
    THEN {i \in 1..Len(Refs(scr).v) : ~WellFormedRef(Refs(scr).v[i])}
    ELSE {}

\* the invocation got as far as the schema
Validated(c) ==
    \/ Made(call[c].trace, "scrNoIdSchema.parse")
    \/ Made(call[c].trace, "scrSchema.parse")

\* the body of every request of invocation c has only well-formed refs
SendsOnlyWellFormedRefs(c) ==
    \A i \in 1..Len(call[c].fetches) :
        LET sent == JSONparse(call[c].fetches[i].body) IN
        sent.ok /\ BadRefs(sent.val) = {}

\* C19: postContent and putContent never transmit a record whose
\* content.refs is present but empty or holds an element that is not a
\* well-formed Reference.
C19_RefsNonEmptyAndWellFormed ==
    \A c \in Invocations :
        (/\ call[c].op \in {"postContent", "putContent"}
         /\ Refs(call[c].args.scr).t = "arr"
         /\ \/ Refs(call[c].args.scr).v = <<>>
            \/ BadRefs(call[c].args.scr) # {}) => NoFetch(c)

\* C19 (as the schema has it): postContent and putContent never transmit a
\* record whose content.refs holds an element that is not a well-formed
\* Reference, and once the schema is consulted fail with a ZodError naming
\* each such element; a record with refs: [] that is valid otherwise passes
\* and is transmitted with its empty refs.
C19_RefsWellFormed ==
    \A c \in Invocations :
        call[c].op \in {"postContent", "putContent"} =>
            LET scr == call[c].args.scr IN
            /\ SendsOnlyWellFormedRefs(c)
            /\ BadRefs(scr) # {} =>
                 /\ NoFetch(c)
                 /\ Validated(c) =>
                      /\ Failed(c) /\ call[c].outcome.err.name = "ZodError"
                      /\ \A i \in BadRefs(scr) :
                           \E issue \in call[c].outcome.err.issues :
                               issue.path \in
                                 {PathIndex("content.refs", i),
                                  PathIndex("content.refs", i) \o ".contentType",
                                  PathIndex("content.refs", i) \o ".url"}
            /\ (scr = recEmptyRefs /\ Validated(c)) =>
                 /\ Len(call[c].fetches) = 1
                 /\ Refs(JSONparse(call[c].fetches[1].body).val) = JArr(<<>>)

\* putContent refused the record whose reference has the url cat.glb
C19_Witness ==
    \E c \in Invocations :
        /\ call[c].op = "putContent" /\ call[c].args.scr = recBadRef
        /\ Validated(c) /\ Failed(c) /\ NoFetch(c)
        /\ call[c].outcome.err.issues =
             {Issue("content.refs[0].url", "invalid_string")}

\* postContent sent the record with refs: []
C19_EmptyRefsSent ==
    \E c \in Invocations :
        /\ call[c].op = "postContent" /\ call[c].args.scr = recEmptyRefs
        /\ Len(call[c].fetches) = 1
        /\ Refs(JSONparse(call[c].fetches[1].body).val) = JArr(<<>>)

\* content.geopose of a record
Geopose(scr) == Get(Get(scr, "content"), "geopose")

\* the parts of content.geopose that a record with a content lacks, as the
\* paths at which the schema reports them
MissingGeopose(scr) ==
    IF Get(scr, "content").t # "obj" THEN {}
    ELSE IF Geopose(scr).t = "undef" THEN {"content.geopose"}
    ELSE IF Geopose(scr).t # "obj" THEN {}
    ELSE {"content.geopose." \o part : part \in
            {p \in {"position", "quaternion"} : Get(Geopose(scr), p).t = "undef"}}

\* the record that invocation c is to transmit: the scr argument, or what
\* the text of the file parses to
Candidate(c) ==
    IF call[c].op = "postScrFile"
    THEN LET r == JSONparse(call[c].args.file.text) IN
         IF call[c].args.file.def /\ r.ok THEN r.val ELSE JUndef
    ELSE call[c].args.scr

\* C20: a candidate record in which content.geopose is missing, or in which
\* geopose lacks position or quaternion, fails validation with a ZodError
\* that names what is missing; postContent, postScrFile and putContent never
\* transmit a record without a complete geopose.
C20_GeoposeRequired ==
    \A c \in Invocations :
        call[c].op \in {"postContent", "postScrFile", "putContent"} =>
            /\ \A i \in 1..Len(call[c].fetches) :
                 LET sent == JSONparse(call[c].fetches[i].body) IN
                 /\ sent.ok
                 /\ Get(Geopose(sent.val), "position").t = "obj"
                 /\ Get(Geopose(sent.val), "quaternion").t = "obj"
            /\ MissingGeopose(Candidate(c)) # {} =>
                 /\ NoFetch(c)
                 /\ Validated(c) =>
                      /\ Failed(c) /\ call[c].outcome.err.name = "ZodError"
                      /\ \A path \in MissingGeopose(Candidate(c)) :
                           Issue(path, "invalid_type")
                               \in call[c].outcome.err.issues

\* postContent refused the record without geopose
C20_Witness ==
    \E c \in Invocations :
        /\ call[c].op = "postContent" /\ call[c].args.scr = recNoGeopose
        /\ Validated(c) /\ Failed(c) /\ NoFetch(c)
        /\ call[c].outcome.err.issues = {Issue("content.geopose", "invalid_type")}

\* postScrFile refused the file whose geopose has no position
C20_FileWithoutPosition ==
    \E c \in Invocations :
        /\ call[c].op = "postScrFile"
        /\ Candidate(c) = recNoPosition
        /\ Failed(c) /\ NoFetch(c)
        /\ call[c].outcome.err.issues =
             {Issue("content.geopose.position", "invalid_type")}

\* the error names the file: its message holds the file's name
NamesFile(err, file) ==
    \E i \in 1..Len(err.message) : err.message[i] = RawTok(file.name)

\* postScrFile of invocation c failed on the text of its file
FailedOnText(c) ==
    /\ call[c].op = "postScrFile" /\ call[c].args.file.def
    /\ Made(call[c].trace, "JSON.parse")
    /\ Failed(c) /\ NoFetch(c)
    /\ call[c].outcome.err.name \in {"SyntaxError", "ZodError"}

\* in postScrFile a text that is no JSON fails with the SyntaxError of
\* JSON.parse before the schema is consulted, and a JSON text that violates
\* the schema fails with a ZodError
C21_ParseAndSchemaErrorsDiffer ==
    \A c \in Invocations :
        FailedOnText(c) =>
            LET r == JSONparse(call[c].args.file.text) IN
            IF r.ok
            THEN /\ call[c].outcome.err.name = "ZodError"
                 /\ call[c].outcome.err.issues # {}
            ELSE /\ call[c].outcome.err.name = "SyntaxError"
                 /\ call[c].outcome.err.issues = {}
                 /\ ~Validated(c)

\* C21: a text that is no JSON and a JSON text that violates the schema fail
\* with different kinds of error, the first with the parse failure only, and
\* each of the two errors carries the name of the file.
C21_ErrorsDifferAndNameTheFile ==
    /\ C21_ParseAndSchemaErrorsDiffer
    /\ \A c \in Invocations :
          FailedOnText(c) => NamesFile(call[c].outcome.err, call[c].args.file)

\* the arguments of invocation c are refused by the operation's own check
InvalidArguments(c) ==
    LET a == call[c].args
        op == call[c].op
    IN CASE op \in {"getContentsAtLocation", "getContentAtLocation"} ->
              ~call[c].localAtCall /\ (IsMissing(a.topic) \/ IsMissing(a.h3Index))
         [] op = "getContentWithId" ->
              ~call[c].localAtCall /\ (~a.id.def \/ Len(a.id.s) < MinIdLength)
         [] op = "postContent" -> ~call[c].localAtCall /\ IsMissing(a.token)
         [] op = "putContent" ->
              ~call[c].localAtCall /\ (IsMissing(a.id) \/ IsMissing(a.token))
         [] op = "postScrFile" ->
              /\ Made(call[c].trace, "postContent")
              /\ call[c].localRead = <<FALSE>> /\ IsMissing(a.token)
         [] OTHER -> FALSE

\* the text to parse is no JSON: the file's text, or the body of an ok
\* response that a read operation has consumed
ParseFailure(c) ==
    \/ /\ call[c].op = "postScrFile" /\ Made(call[c].trace, "JSON.parse")
       /\ ~JSONparse(call[c].args.file.text).ok
    \/ /\ call[c].op \in ReadOperations /\ Answered(c) /\ call[c].resp.ok
       /\ Settles(c) /\ ~JSONparse(call[c].resp.body).ok

\* the schema was consulted and the candidate violates it
SchemaViolation(c) ==
    /\ Validated(c)
    /\ ~Conforms(IF call[c].op = "putContent" THEN scrSchema ELSE scrNoIdSchema,
                 Candidate(c))

NonSuccessResponse(c) == Answered(c) /\ ~call[c].resp.ok
TransportFailure(c) == Settles(c) /\ ~NoFetch(c) /\ ~Answered(c)
FileReadFailure(c) ==
    \/ Made(call[c].trace, "onerror")
    \/ call[c].op = "postScrFile" /\ ~call[c].args.file.def

ErrorOccurred(c) ==
    \/ InvalidArguments(c) \/ ParseFailure(c) \/ SchemaViolation(c)
    \/ NonSuccessResponse(c) \/ TransportFailure(c) \/ FileReadFailure(c)

\* an invocation in which an error occurred holds no value, and is failed
\* once it is settled
ErrorsPropagate ==
    \A c \in Invocations :
        ErrorOccurred(c) =>
            /\ call[c].outcome.kind # "value"
            /\ Settles(c) => Failed(c)

\* a settled outcome stays as it is until the caller takes it
SettledOnce ==
    \A c \in Invocations :
        Settles(c) => (call'[c] = call[c] \/ call'[c] = Idle)

\* C22: invalid arguments, a parse failure, a schema violation, a non-ok
\* response, a transport failure and a file-read failure each end the
\* invocation failed, never with a value; and when the transport and the
\* file reader complete, every invocation that was started settles, once.
C22_ErrorsPropagateAndSettle ==
    /\ []ErrorsPropagate
    /\ [][SettledOnce]_vars
    /\ \A c \in {1} : (call[c].pc # "idle") ~> Settles(c)

\* an invocation failed because fetch was rejected
C22_Witness ==
    \E c \in Invocations :
        /\ TransportFailure(c) /\ Failed(c)
        /\ call[c].outcome.err = TransportError

AliasCallsCanonical ==
    \A c \in Invocations :
        (call[c].pc = "idle" /\ call'[c].op = "getContentAtLocation") =>
            LET a == call'[c].args IN
            [call'[c] EXCEPT !.op = "getContentsAtLocation"] =
                Begin("getContentsAtLocation", a,
                      getContentsAtLocation(a.url, a.topic, a.h3Index, a.keywords))

\* what the caller of either name gets from a response is the same function
\* of the response
SameOutcomeFromResponse ==
    \A c \in Invocations :
        (/\ call[c].op \in {"getContentAtLocation", "getContentsAtLocation"}
         /\ Answered(c) /\ Settles(c)) =>
            call[c].outcome =
                IF ~call[c].resp.ok
                THEN [kind |-> "error", ret |-> NoRet,
                      err |-> Error(call[c].resp.body
                                    \o <<RawTok(", " \o call[c].resp.statusText)>>)]
                ELSE IF JSONparse(call[c].resp.body).ok
                THEN [kind |-> "value",
                      ret |-> RetJson(JSONparse(call[c].resp.body).val),
                      err |-> NoErr]
                ELSE [kind |-> "error", ret |-> NoRet, err |-> JsonSyntaxError]

\* C24: getContentAtLocation behaves as getContentsAtLocation: for all
\* arguments, the default of keywords included, and both values of `local`
\* it makes the same request (URL, method, headers) and gives the same value
\* or the same error.
C24_AliasEquivalent ==
    [][AliasCallsCanonical]_vars /\ []SameOutcomeFromResponse

\* the alias, called without keywords, asked for ...?h3Index=8928308280fffff
\* and returned the parsed list
C24_Witness ==
    \E c \in Invocations :
        /\ call[c].op = "getContentAtLocation"
        /\ call[c].args.keywords = Undefined
        /\ Len(call[c].fetches) = 1
        /\ call[c].fetches[1].url = "https://svc/scrs/3d?h3Index=8928308280fffff"
        /\ Returned(c, RetJson(localResults))

\* the alias passed keywords 'cat' on
C24_AliasWithKeywords ==
    \E c \in Invocations :
        /\ call[c].op = "getContentAtLocation"
        /\ Len(call[c].fetches) = 1
        /\ call[c].fetches[1].url =
             "https://svc/scrs/3d?h3Index=8928308280fffff&keywords=cat"

\* the optional fields of the SCR contract, at the top and in content
OptionalFields == {"tenant", "timestamp"}
OptionalContentFields ==
    {"description", "keywords", "placekey", "refs", "size", "bbox", "definitions"}

\* C25: the body that postContent and putContent send is the serialisation of
\* the record as the caller supplied it: an optional field absent from the
\* record is absent from the body, a field present and empty is present and
\* empty in the body, and no other member is added, dropped or changed.
C25_PayloadAsSupplied ==
    \A c \in Invocations :
        call[c].op \in {"postContent", "putContent"} =>
            \A i \in 1..Len(call[c].fetches) :
                LET scr == call[c].args.scr
                    sent == JSONparse(call[c].fetches[i].body)
                IN /\ call[c].fetches[i].hasBody
                   /\ sent.ok
                   /\ \A f \in OptionalFields : Get(sent.val, f) = Get(scr, f)
                   /\ \A f \in OptionalContentFields :
                        Get(Get(sent.val, "content"), f)
                            = Get(Get(scr, "content"), f)
                   /\ Keys(sent.val) = Keys(scr)
                   /\ Keys(Get(sent.val, "content")) = Keys(Get(scr, "content"))
                   /\ sent.val = scr

\* postContent sent the record whose description is '' and whose keywords
\* and definitions are [], with these as they are and without placekey,
\* size, bbox or timestamp
C25_Witness ==
    \E c \in Invocations :
        /\ call[c].op = "postContent" /\ call[c].args.scr = recOptionals
        /\ Len(call[c].fetches) = 1
        /\ LET content == Get(JSONparse(call[c].fetches[1].body).val, "content")
           IN /\ Get(content, "description") = JStr("")
              /\ Get(content, "keywords") = JArr(<<>>)
              /\ Get(content, "definitions") = JArr(<<>>)
              /\ Keys(content) \cap {"placekey", "size", "bbox"} = {}

\* a record without refs went out without refs
C25_AbsentStaysAbsent ==
    \E c \in Invocations :
        /\ call[c].op = "putContent" /\ call[c].args.scr = recWithId
        /\ Len(call[c].fetches) = 1
        /\ "refs" \notin
             Keys(Get(JSONparse(call[c].fetches[1].body).val, "content"))

\* what invocation record r becomes in one step when it runs alone: the
\* step depends on r, on `local` and on what the transport or the reader
\* answers, and on nothing else
AloneSteps(r) ==
    LET a == r.args
        failed(err) == [r EXCEPT !.pc = "done",
                                 !.outcome = [kind |-> "error", ret |-> NoRet,
                                              err |-> err]]
    IN CASE r.pc = "idle" -> {Started(k) : k \in ConcurrentCalls}
         [] r.pc = "awaitFile" ->
              {Apply([r EXCEPT !.trace = Append(@, "onload")],
                     postScrFileLoaded(a.url, a.topic, a.file.text, a.token)),
               [failed(fileReadError(a.file)) EXCEPT
                    !.trace = Append(@, "onerror")]}
         [] r.pc = "awaitFetch" ->
              {[r EXCEPT !.resp = resp,
                         !.pc = IF resp.ok THEN "awaitBody" ELSE "awaitErrorText"] :
                   resp \in Responses}
              \cup {failed(TransportError)}
         [] r.pc = "awaitErrorText" ->
              {failed(Error(r.resp.body \o <<RawTok(", " \o r.resp.statusText)>>))}
         [] r.pc = "awaitBody" ->
              {[r EXCEPT !.pc = "done",
                         !.outcome =
                            IF r.as = "text"
                            THEN [kind |-> "value", ret |-> RetText(r.resp.body),
                                  err |-> NoErr]
                            ELSE IF JSONparse(r.resp.body).ok
                            THEN [kind |-> "value",
                                  ret |-> RetJson(JSONparse(r.resp.body).val),
                                  err |-> NoErr]
                            ELSE [kind |-> "error", ret |-> NoRet,
                                  err |-> JsonSyntaxError]]}
         [] OTHER -> {Idle}

\* every step leaves each invocation as it is or takes it one step further
\* as if it ran alone, and takes one invocation at a time
NoInterference ==
    /\ \A c \in Invocations :
          call'[c] = call[c] \/ call'[c] \in AloneSteps(call[c])
    /\ \E c \in Invocations : \A d \in Invocations \ {c} : call'[d] = call[d]

\* C26: with `local` unchanged, two invocations of different operations that
\* interleave at their awaits do not interfere: each makes the request and
\* gets the outcome that it makes and gets alone with the same answers of
\* the transport and the file reader.
C26_NoInterference == [][NoInterference]_vars

\* getContentWithId returned its record while postContent was still waiting
\* for its own response, and postContent then got the text of its own
C26_Witness ==
    /\ call[1].op = "postContent" /\ call[2].op = "getContentWithId"
    /\ call[1].resp = Response(TRUE, "OK", <<RawTok("created")>>)
    /\ Returned(1, RetText(<<RawTok("created")>>))
    /\ call[2].resp = Response(TRUE, "OK", JSONstringify(recWithId))
    /\ Returned(2, RetJson(recWithId))

\* a step in which an invocation starts, goes on or settles leaves `local`
\* as it is: the flag changes only in a step of the setup, which touches no
\* invocation
OperationsKeepLocal == (call' # call) => (local' = local)

\* what the offline operations hand out is the fixtures as index.ts defines
\* them, at every call
FixturesAsDefined ==
    \A c \in Invocations :
        (call[c].localAtCall /\ Settles(c)) =>
            /\ call[c].op \in {"getContentsAtLocation", "getContentAtLocation"} =>
                 Returned(c, RetJson(localResults))
            /\ call[c].op = "getContentWithId" => Returned(c, RetJson(localResult))

\* C27: no operation writes `local`: the flag has the value the setup gave it
\* whatever operations ran and however they ended, and the fixtures
\* localResults and localResult stay as defined.
C27_LocalWrittenBySetupOnly ==
    [][OperationsKeepLocal]_vars /\ []FixturesAsDefined

\* an operation failed on the transport and the flag is false as it was at
\* the call
C27_Witness ==
    \E c \in Invocations :
        /\ TransportFailure(c) /\ Failed(c)
        /\ ~call[c].localAtCall /\ ~local

\* C28: each operation reads `local` at most once, before its first
\* suspension and so as it was when the operation was called: a flip of the
\* flag while an invocation waits never changes its mode; postScrFile too
\* decides between "OK" and the POST from the flag at the call.
C28_LocalReadAtCall ==
    \A c \in Invocations :
        /\ Len(call[c].localRead) <= 1
        /\ \A i \in 1..Len(call[c].localRead) :
              call[c].localRead[i] = call[c].localAtCall
        /\ (call[c].op = "postScrFile" /\ call[c].localAtCall) => NoFetch(c)

\* C28 (as the code has it): each operation reads `local` at most once. All
\* but postScrFile read it before their first suspension, as it was at the
\* call, and with the flag true make no request. postScrFile reads it only
\* after the file was loaded, parsed and validated, when postContent is
\* called: the value of that moment decides between "OK" and the POST,
\* whatever the flag was at the call.
C28_LocalReadOnceLateInPostScrFile ==
    \A c \in Invocations :
        /\ Len(call[c].localRead) <= 1
        /\ call[c].op # "postScrFile" =>
              /\ \A i \in 1..Len(call[c].localRead) :
                    call[c].localRead[i] = call[c].localAtCall
              /\ (call[c].localRead # <<>> /\ call[c].localAtCall) => NoFetch(c)
              /\ call[c].localRead # <<>> =>
                    OnlyAfter(call[c].trace, "fetch", "local")
        /\ call[c].op = "postScrFile" =>
              /\ OnlyAfter(call[c].trace, "local", "onload")
              /\ OnlyAfter(call[c].trace, "local", "scrNoIdSchema.parse")
              /\ ~NoFetch(c) => call[c].localRead = <<FALSE>>
              /\ call[c].localRead = <<TRUE>> =>
                    NoFetch(c) /\ Returned(c, RetText(OK))

\* postScrFile was called with the flag true, the flag was cleared while the
\* file was read, and the record was posted
C28_Witness ==
    \E c \in Invocations :
        /\ call[c].op = "postScrFile" /\ call[c].localAtCall
        /\ call[c].localRead = <<FALSE>>
        /\ Len(call[c].fetches) = 1
        /\ call[c].fetches[1].method = "post"

\* and the other way round: called with the flag false, it answered "OK"
\* without a request
C28_OfflineAfterFlip ==
    \E c \in Invocations :
        /\ call[c].op = "postScrFile" /\ ~call[c].localAtCall
        /\ call[c].localRead = <<TRUE>>
        /\ NoFetch(c) /\ Returned(c, RetText(OK))

\* postScrFile of invocation c ran with `local` true: true at the call and
\* true when postContent looked at it
OfflinePostScrFile(c) ==
    /\ call[c].op = "postScrFile" /\ call[c].localAtCall
    /\ call[c].localRead # <<FALSE>>

\* C29: with `local` true postScrFile still reads the file, parses the text
\* and validates the value before postContent looks at the flag: it returns
\* "OK" only after all three succeeded, and fails, without a fetch, when the
\* file cannot be read, the text is no JSON or the value violates the
\* SCR-no-id schema.
C29_OfflineFileStillValidated ==
    \A c \in Invocations :
        OfflinePostScrFile(c) =>
            LET file == call[c].args.file
                text == JSONparse(file.text)
                trace == call[c].trace
            IN /\ NoFetch(c)
               /\ call[c].readAsText = 1
               /\ OnlyAfter(trace, "JSON.parse", "onload")
               /\ OnlyAfter(trace, "scrNoIdSchema.parse", "JSON.parse")
               /\ OnlyAfter(trace, "local", "scrNoIdSchema.parse")
               /\ (Settles(c) /\ call[c].outcome.kind = "value") =>
                     /\ Returned(c, RetText(OK))
                     /\ file.def /\ Made(trace, "onload")
                     /\ text.ok /\ Conforms(scrNoIdSchema, text.val)
               /\ (Settles(c) /\ (~file.def \/ Made(trace, "onerror"))) =>
                     Failed(c) /\ call[c].outcome.err.name = "string"
               /\ (Settles(c) /\ Made(trace, "onload") /\ ~text.ok) =>
                     Failed(c) /\ call[c].outcome.err.name = "SyntaxError"
               /\ (Settles(c) /\ Made(trace, "onload") /\ text.ok
                     /\ ~Conforms(scrNoIdSchema, text.val)) =>
                     Failed(c) /\ call[c].outcome.err.name = "ZodError"

\* offline, the file without geopose was refused
C29_Witness ==
    \E c \in Invocations :
        /\ OfflinePostScrFile(c) /\ local
        /\ Candidate(c) = recNoGeopose
        /\ Failed(c) /\ NoFetch(c)
        /\ call[c].outcome.err.name = "ZodError"

\* offline, a valid file was read, parsed and validated and "OK" came back
C29_OfflineOk ==
    \E c \in Invocations :
        /\ OfflinePostScrFile(c) /\ Candidate(c) = recMinimal
        /\ call[c].localRead = <<TRUE>>
        /\ Returned(c, RetText(OK)) /\ NoFetch(c)

\* getFileContent(undefined) rejects with 'Undefined file provided', once
C30_UndefinedFileRejectedOnce ==
    \A c \in Invocations :
        (call[c].op = "postScrFile" /\ ~call[c].args.file.def) =>
            /\ Failed(c) /\ NoFetch(c)
            /\ call[c].outcome.err =
                 Rejection(<<RawTok("Undefined file provided")>>)
            /\ ~Made(call[c].trace, "onload") /\ ~Made(call[c].trace, "onerror")

\* C30: getFileContent called with an undefined file rejects with 'Undefined
\* file provided' and stops there: no reader is constructed, readAsText is
\* not called, and the promise is settled once, with that rejection.
C30_UndefinedFileStopsAtReject ==
    /\ C30_UndefinedFileRejectedOnce
    /\ \A c \in Invocations :
          (call[c].op = "postScrFile" /\ ~call[c].args.file.def) =>
              /\ call[c].readers = 0
              /\ call[c].readAsText = 0
              /\ ~Made(call[c].trace, "new FileReader")
              /\ ~Made(call[c].trace, "readAsText")

=============================================================================
